---- MODULE Spec2Model ----
(***************************************************************************)
(* Model of the maritime fee engine (rules/fee_engine.py) and of the       *)
(* pilotage rate registry loader (rules/rates_loader.py).                  *)
(*                                                                         *)
(* Money is an integer number of cents.  Dates are day numbers, day 0      *)
(* being a Monday.  Decimal inputs are held at a fixed scale that is named *)
(* where they are used; _money (quantize to cents, half-up) is Money.      *)
(***************************************************************************)
EXTENDS Integers, Sequences, FiniteSets, TLC

VARIABLES
    registry,   \* the rates registry file: zone -> sequence of versions
    store,      \* the database: fee rows, contract adjustments, pilotage rates
    port,       \* the Port row of the arrival port
    engine,     \* the FeeEngine instance: accumulators, profile, caches
    call,       \* the call being served: its name and arguments
    result      \* what the call returned or raised

vars == <<registry, store, port, engine, call, result>>

None == "None"

\* ------------------------------------------------------------------------
\* Bounds of the model
\* ------------------------------------------------------------------------
MaxVersions == 2
MaxDate == 2

\* ------------------------------------------------------------------------
\* Arithmetic helpers
\* ------------------------------------------------------------------------
Abs(x) == IF x < 0 THEN -x ELSE x

Max2(a, b) == IF a >= b THEN a ELSE b

Min2(a, b) == IF a <= b THEN a ELSE b

\* num/den rounded to the nearest integer, ties away from zero (ROUND_HALF_UP)
RoundHalfUp(num, den) ==
    LET n == Abs(num)
        q == (n \div den) + (IF 2 * (n % den) >= den THEN 1 ELSE 0)
    IN  IF num >= 0 THEN q ELSE -q

\* num/den for num >= 0 rounded to the nearest integer, ties to the even one
\* (ROUND_HALF_EVEN, what Decimal.quantize does when no rounding is given)
RoundHalfEven(num, den) ==
    LET q == num \div den
        r == num % den
    IN  IF 2 * r > den \/ (2 * r = den /\ q % 2 = 1) THEN q + 1 ELSE q

\* round(a * m / d) for a >= 0 without forming a * m
MulDivRound(a, m, d) == (a \div d) * m + RoundHalfUp((a % d) * m, d)

RECURSIVE SumSeq(_)
SumSeq(s) == IF s = <<>> THEN 0 ELSE Head(s) + SumSeq(Tail(s))

Range(s) == {s[i] : i \in DOMAIN s}

SetMax(S) == CHOOSE x \in S : \A y \in S : y <= x

\* ------------------------------------------------------------------------
\* Rate registry loader (rules/rates_loader.py)
\*
\* A version of the file is a record: keys is the set of top-level keys the
\* JSON object has; bar, bay, river, surcharges are functions from the keys
\* present to their values; extras is a function from extra names to amounts
\* and extras_is_mapping tells whether the JSON value of "extras" is a mapping.
\* Scales: base_fee, per_foot_rate, minimum, min_total, max_total, night_flat
\* in dollars; draft_multiplier, weekend_multiplier, holiday_multiplier in
\* hundredths; extras in 1/100000 dollar (mill rates have five decimals).
\* ------------------------------------------------------------------------
_REQUIRED_VERSION_KEYS == {"effective", "bar", "bay", "river", "surcharges", "extras"}

_REQUIRED_BAR_KEYS == {"base_fee", "per_foot_rate", "draft_multiplier", "min_total", "max_total"}

_REQUIRED_BAY_KEYS == {"per_foot_rate", "minimum"}

_REQUIRED_RIVER_KEYS == {"per_foot_rate", "minimum"}

_REQUIRED_SURCHARGE_KEYS == {"weekend_multiplier", "holiday_multiplier", "night_flat"}

\* str.upper() on the zone names the model uses
Upper(z) ==
    CASE z = "socal" -> "SOCAL"
      [] z = "norcal" -> "NORCAL"
      [] z = "puget" -> "PUGET"
      [] OTHER -> z

\* the value standing for "no version" (Python's None)
NoEntry == [effective |-> -1]

Failure(kind, path) == [ok |-> FALSE, error |-> kind, path |-> path, entry |-> NoEntry]

Success(entry) == [ok |-> TRUE, error |-> None, path |-> <<>>, entry |-> entry]

\* _ensure_keys as it would be if a missing bar, bay, river or surcharge field
\* were reported by its component only
_ensure_keys_component_only(zone, record) ==
    LET top == _REQUIRED_VERSION_KEYS \ record.keys
        bar == _REQUIRED_BAR_KEYS \ DOMAIN record.bar
        bay == _REQUIRED_BAY_KEYS \ DOMAIN record.bay
        river == _REQUIRED_RIVER_KEYS \ DOMAIN record.river
        sur == _REQUIRED_SURCHARGE_KEYS \ DOMAIN record.surcharges
    IN  IF top # {} THEN {<<zone, k>> : k \in top}
        ELSE IF bar # {} THEN {<<zone, "bar">>}
        ELSE IF bay # {} THEN {<<zone, "bay">>}
        ELSE IF river # {} THEN {<<zone, "river">>}
        ELSE IF sur # {} THEN {<<zone, "surcharges">>}
        ELSE IF ~record.extras_is_mapping THEN {<<zone, "extras">>}
        ELSE {}

\* _ensure_keys: the set of MissingRateField paths it can raise for a record
\* (empty when it returns).  The required keys are Python sets, iterated in
\* hash order, so among the keys missing from one group any may be reported;
\* the groups themselves are checked in program order.
_ensure_keys(zone, record) ==
    LET top == _REQUIRED_VERSION_KEYS \ record.keys
        bar == _REQUIRED_BAR_KEYS \ DOMAIN record.bar
        bay == _REQUIRED_BAY_KEYS \ DOMAIN record.bay
        river == _REQUIRED_RIVER_KEYS \ DOMAIN record.river
        sur == _REQUIRED_SURCHARGE_KEYS \ DOMAIN record.surcharges
    IN  IF top # {} THEN {<<zone, k>> : k \in top}
        ELSE IF bar # {} THEN {<<zone, "bar", k>> : k \in bar}
        ELSE IF bay # {} THEN {<<zone, "bay", k>> : k \in bay}
        ELSE IF river # {} THEN {<<zone, "river", k>> : k \in river}
        ELSE IF sur # {} THEN {<<zone, "surcharges", k>> : k \in sur}
        ELSE IF ~record.extras_is_mapping THEN {<<zone, "extras">>}
        ELSE {}

\* _normalise_version: keeps the required fields only
_normalise_version(record) ==
    [effective |-> record.effective,
     bar |-> [k \in _REQUIRED_BAR_KEYS |-> record.bar[k]],
     bay |-> [k \in _REQUIRED_BAY_KEYS |-> record.bay[k]],
     river |-> [k \in _REQUIRED_RIVER_KEYS |-> record.river[k]],
     surcharges |-> [k \in _REQUIRED_SURCHARGE_KEYS |-> record.surcharges[k]],
     extras |-> record.extras]

\* the selection loop as it would be if the last qualifying entry of the file
\* won, whatever its effective date
RECURSIVE SelectVersionLastListed(_, _, _, _, _)
SelectVersionLastListed(zone, versions, i, job_date, selected) ==
    IF i > Len(versions)
    THEN IF selected = NoEntry
         THEN {Failure("ValueError", <<"no pilotage rates effective", zone>>)}
         ELSE {Success(selected)}
    ELSE LET missing == _ensure_keys(zone, versions[i])
         IN  IF missing # {}
             THEN {Failure("MissingRateField", p) : p \in missing}
             ELSE LET version == _normalise_version(versions[i])
                      take == version.effective <= job_date
                  IN  SelectVersionLastListed(zone, versions, i + 1, job_date,
                                              IF take THEN version ELSE selected)

\* the selection loop of load_pilotage_rates from entry i on; selected is the
\* version chosen so far (NoEntry at the start)
RECURSIVE SelectVersion(_, _, _, _, _)
SelectVersion(zone, versions, i, job_date, selected) ==
    IF i > Len(versions)
    THEN IF selected = NoEntry
         THEN {Failure("ValueError", <<"no pilotage rates effective", zone>>)}
         ELSE {Success(selected)}
    ELSE LET missing == _ensure_keys(zone, versions[i])
         IN  IF missing # {}
             THEN {Failure("MissingRateField", p) : p \in missing}
             ELSE LET version == _normalise_version(versions[i])
                      take == /\ version.effective <= job_date
                              /\ (selected = NoEntry \/ version.effective > selected.effective)
                  IN  SelectVersion(zone, versions, i + 1, job_date,
                                    IF take THEN version ELSE selected)

\* load_pilotage_rates as it would be if a date before every version were
\* served by the first version listed
load_pilotage_rates_nearest(reg, port_zone, job_date) ==
    IF port_zone = ""
    THEN {Failure("ValueError", <<"port_zone is required">>)}
    ELSE LET zone == Upper(port_zone)
         IN  IF zone \notin DOMAIN reg \/ reg[zone] = <<>>
             THEN {Failure("KeyError", <<"no pilotage rates configured", zone>>)}
             ELSE {IF ~o.ok /\ o.error = "ValueError"
                   THEN Success(_normalise_version(reg[zone][1]))
                   ELSE o :
                   o \in SelectVersion(zone, reg[zone], 1, job_date, NoEntry)}

\* load_pilotage_rates: the set of outcomes the call can have
load_pilotage_rates(reg, port_zone, job_date) ==
    IF port_zone = ""
    THEN {Failure("ValueError", <<"port_zone is required">>)}
    ELSE LET zone == Upper(port_zone)
         IN  IF zone \notin DOMAIN reg \/ reg[zone] = <<>>
             THEN {Failure("KeyError", <<"no pilotage rates configured", zone>>)}
             ELSE SelectVersion(zone, reg[zone], 1, job_date, NoEntry)

\* ------------------------------------------------------------------------
\* Registry contents the model draws from
\* ------------------------------------------------------------------------
\* a complete version; rates is a record of the values the file gives
RateVersion(effective, rates) ==
    [effective |-> effective,
     keys |-> _REQUIRED_VERSION_KEYS,
     bar |-> [base_fee |-> rates.bar_base, per_foot_rate |-> rates.bar_per_foot,
              draft_multiplier |-> rates.bar_draft, min_total |-> 3000,
              max_total |-> 15000],
     bay |-> [per_foot_rate |-> rates.bay_per_foot, minimum |-> rates.bay_min],
     river |-> [per_foot_rate |-> rates.river_per_foot, minimum |-> rates.river_min],
     surcharges |-> [weekend_multiplier |-> rates.weekend,
                     holiday_multiplier |-> rates.holiday,
                     night_flat |-> rates.night],
     extras |-> rates.extras,
     extras_is_mapping |-> TRUE]

\* the figures of tests/test_pilotage_rates.py, stepped by the effective date
\* so that versions of different dates differ in every value
RatesOf(effective) ==
    [bar_base |-> 1000 + 200 * effective, bar_per_foot |-> 5 + effective,
     bar_draft |-> 110 + 10 * effective,
     bay_per_foot |-> 2 + effective, bay_min |-> 500 + 100 * effective,
     river_per_foot |-> 0, river_min |-> 0,
     weekend |-> 150 + 10 * effective, holiday |-> 200 + 10 * effective,
     night |-> 400 + 50 * effective,
     extras |-> [n \in {"transportation"} |-> 20000000 + 5000000 * effective]]

\* what can be removed from a version: a top-level key <<k>>, a field
\* <<component, k>>, or the mapping-ness of extras
Removable ==
    {<<k>> : k \in _REQUIRED_VERSION_KEYS}
    \cup {<<"bar", k>> : k \in _REQUIRED_BAR_KEYS}
    \cup {<<"bay", k>> : k \in _REQUIRED_BAY_KEYS}
    \cup {<<"river", k>> : k \in _REQUIRED_RIVER_KEYS}
    \cup {<<"surcharges", k>> : k \in _REQUIRED_SURCHARGE_KEYS}
    \cup {<<"extras", "not a mapping">>}

Without(f, component, removed) ==
    [k \in DOMAIN f \ {p[2] : p \in {q \in removed : Len(q) = 2 /\ q[1] = component}} |-> f[k]]

\* version v with the paths of removed taken out
Damaged(v, removed) ==
    [effective |-> v.effective,
     keys |-> v.keys \ {p[1] : p \in {q \in removed : Len(q) = 1}},
     bar |-> Without(v.bar, "bar", removed),
     bay |-> Without(v.bay, "bay", removed),
     river |-> Without(v.river, "river", removed),
     surcharges |-> Without(v.surcharges, "surcharges", removed),
     extras |-> v.extras,
     extras_is_mapping |-> v.extras_is_mapping /\ <<"extras", "not a mapping">> \notin removed]

\* the subsets of S with at most two elements
UpToTwo(S) == {{}} \cup {{a, b} : a, b \in S}

\* registries with one zone, SOCAL, holding n versions in any order of
\* effective dates, at most two fields missing over the whole zone
RegistriesOfLength(n) ==
    {[z \in {"SOCAL"} |->
        [i \in 1..n |-> Damaged(RateVersion(dates[i], RatesOf(dates[i])),
                                {d[2] : d \in {e \in damage : e[1] = i}})]] :
        dates \in [1..n -> 1..MaxDate],
        damage \in UpToTwo((1..n) \X Removable)}

RatesRegistries == UNION {RegistriesOfLength(n) : n \in 0..MaxVersions}

ZoneArgs == {"socal", "PUGET", ""}

\* ------------------------------------------------------------------------
\* State that a specification leaves alone
\* ------------------------------------------------------------------------
Idle == [op |-> "idle"]

NoResult == [ok |-> FALSE, error |-> "no call yet", path |-> <<>>, entry |-> NoEntry]

EmptyStore ==
    [fees |-> <<>>, adjustments |-> <<>>, pilotage_rates |-> <<>>, vessel_types |-> <<>>]

NoPort == [code |-> ""]

NoEngine == [constructed |-> FALSE]

\* ------------------------------------------------------------------------
\* The loader on its own
\* ------------------------------------------------------------------------
LoadPilotageRatesCall(port_zone, job_date) ==
    /\ call.op = "idle"
    /\ \E outcome \in load_pilotage_rates(registry, port_zone, job_date) :
           result' = outcome
    /\ call' = [op |-> "load_pilotage_rates", port_zone |-> port_zone,
                job_date |-> job_date]
    /\ UNCHANGED <<registry, store, port, engine>>

InitRates ==
    /\ registry \in RatesRegistries
    /\ store = EmptyStore
    /\ port = NoPort
    /\ engine = NoEngine
    /\ call = Idle
    /\ result = NoResult

NextRates == \E z \in ZoneArgs, d \in 0..MaxDate : LoadPilotageRatesCall(z, d)

SpecRates == InitRates /\ [][NextRates]_vars

\* ------------------------------------------------------------------------
\* Calendar and voyage (fee_engine.py: VoyageContext, _is_us_holiday)
\* Day 0 is a Thursday; day 1 (a Friday) and day 3 (a Sunday) are holidays.
\* ------------------------------------------------------------------------
Weekday(d) == (d + 3) % 7

is_weekend_arrival(voyage) == Weekday(voyage.eta.date) >= 5

FederalHolidays == {1, 3}

\* _is_us_holiday: the federal calendar, then the state's (none in the model
\* adds a day of its own)
_is_us_holiday(on, state) == on \in FederalHolidays

\* VesselSpecs.loa_feet and draft_feet, in 1/100000 foot (meters * 3.28084)
loa_feet(vessel) == vessel.loa_meters * 328084

draft_feet(vessel) == vessel.draft_meters * 328084

\* _money of an amount held in 1/100000 dollar, in cents
Money5(x) == RoundHalfUp(x, 1000)

\* ------------------------------------------------------------------------
\* Pilotage legs (fee_engine.py: MovementLeg, _default_legs_for_zone,
\* _classify_leg)
\* ------------------------------------------------------------------------
\* MovementLeg.normalised_type on the labels the model uses
normalised_type(leg_type) ==
    CASE leg_type = "Bar Transit" -> "bar_transit"
      [] leg_type = "Bar Crossing" -> "bar_crossing"
      [] leg_type = "Bay Transit" -> "bay_transit"
      [] leg_type = "River Transit" -> "river_transit"
      [] leg_type = "Harbor Shift" -> "harbor_shift"
      [] leg_type = "Inter-harbor Transfer" -> "inter_harbor_transfer"
      [] leg_type = "Anchorage" -> "anchorage"
      [] leg_type = "Canal Transit" -> "canal_transit"
      [] OTHER -> leg_type

\* "sub in key" for the normalised keys the model uses
Contains(key, sub) ==
    CASE sub = "bar" -> key \in {"bar", "bar_transit", "bar_crossing"}
      [] sub = "bay" -> key \in {"bay", "bay_transit"}
      [] sub = "harbor" -> key \in {"harbor", "harbor_shift", "inter_harbor",
                                    "inter_harbor_transfer", "harbor_move", "interharbor"}
      [] sub = "river" -> key \in {"river", "river_transit"}
      [] sub = "delta" -> key = "delta"
      [] sub = "canal" -> key \in {"canal", "canal_transit"}
      [] OTHER -> FALSE

\* the zone's keyword table: the component of a key, "" when it has none
ZoneMapping(z, key) ==
    IF z \in {"NORCAL", "SFBAY"}
    THEN CASE key \in {"bar", "bar_crossing", "bar_transit", "sea_buoy", "golden_gate"} -> "bar"
           [] key \in {"bay", "bay_transit", "harbor"} -> "bay"
           [] key \in {"river", "river_transit", "delta"} -> "river"
           [] OTHER -> ""
    ELSE IF z = "PUGET"
    THEN CASE key \in {"harbor", "harbor_move", "harbor_shift"} -> "bar"
           [] key \in {"inter_harbor", "interharbor", "inter_harbor_transfer"} -> "bay"
           [] key \in {"canal", "river", "river_transit"} -> "river"
           [] OTHER -> ""
    ELSE IF z \in {"COLUMBIA", "OREGON"}
    THEN CASE key \in {"bar", "bar_crossing", "bar_transit"} -> "bar"
           [] key \in {"river", "river_transit", "willamette", "columbia"} -> "river"
           [] OTHER -> ""
    ELSE CASE key = "bar" -> "bar"
           [] key = "bay" -> "bay"
           [] key = "river" -> "river"
           [] OTHER -> ""

\* _classify_leg as it would be with the substrings tried before the zone's
\* keyword table
_classify_leg_substring_first(zone, leg) ==
    LET key == normalised_type(leg.leg_type)
    IN  IF Contains(key, "bar") THEN "bar"
        ELSE IF Contains(key, "bay") \/ Contains(key, "harbor") THEN "bay"
        ELSE IF Contains(key, "river") \/ Contains(key, "delta") \/ Contains(key, "canal")
             THEN "river"
        ELSE ZoneMapping(Upper(zone), key)

\* _classify_leg: the component ("" for None)
_classify_leg(zone, leg) ==
    LET key == normalised_type(leg.leg_type)
        component == ZoneMapping(Upper(zone), key)
    IN  IF component # "" THEN component
        ELSE IF Contains(key, "bar") THEN "bar"
        ELSE IF Contains(key, "bay") \/ Contains(key, "harbor") THEN "bay"
        ELSE IF Contains(key, "river") \/ Contains(key, "delta") \/ Contains(key, "canal")
             THEN "river"
        ELSE ""

LegsNamed(names) == [i \in 1..Len(names) |-> [sequence |-> i, leg_type |-> names[i]]]

_default_legs_for_zone(zone) ==
    LET zone_up == Upper(zone)
    IN  IF zone_up \in {"NORCAL", "SFBAY"} THEN LegsNamed(<<"bar", "bay", "river">>)
        ELSE IF zone_up = "PUGET" THEN LegsNamed(<<"harbor", "inter_harbor">>)
        ELSE IF zone_up \in {"COLUMBIA", "OREGON"} THEN LegsNamed(<<"bar", "river">>)
        ELSE LegsNamed(<<"bar", "bay", "river">>)

\* sorted(legs, key=sequence): a stable insertion sort
RECURSIVE InsertLeg(_, _)
InsertLeg(sorted, leg) ==
    IF sorted = <<>> THEN <<leg>>
    ELSE IF sorted[Len(sorted)].sequence <= leg.sequence THEN Append(sorted, leg)
    ELSE Append(InsertLeg(SubSeq(sorted, 1, Len(sorted) - 1), leg), sorted[Len(sorted)])

RECURSIVE SortLegs(_)
SortLegs(legs) ==
    IF legs = <<>> THEN <<>>
    ELSE InsertLeg(SortLegs(SubSeq(legs, 1, Len(legs) - 1)), legs[Len(legs)])

\* ------------------------------------------------------------------------
\* Pilotage pricing from a registry entry (fee_engine.py:
\* _pilotage_component_amounts, _build_pilotage_breakdown)
\* ------------------------------------------------------------------------
\* the three component amounts, in cents
_pilotage_component_amounts(vessel, entry) ==
    [bar |-> MulDivRound(entry.bar.base_fee * 100000
                            + loa_feet(vessel) * entry.bar.per_foot_rate,
                         entry.bar.draft_multiplier, 100000),
     bay |-> Money5(Max2(entry.bay.minimum * 100000,
                         loa_feet(vessel) * entry.bay.per_foot_rate)),
     river |-> Money5(Max2(entry.river.minimum * 100000,
                           loa_feet(vessel) * entry.river.per_foot_rate))]

ComponentAmount(components, component) ==
    CASE component = "bar" -> components.bar
      [] component = "bay" -> components.bay
      [] component = "river" -> components.river
      [] OTHER -> 0

\* a set of names as a sequence (the order a dict is walked in)
RECURSIVE SetToSeq(_)
SetToSeq(S) ==
    IF S = {} THEN <<>>
    ELSE LET x == CHOOSE y \in S : TRUE IN <<x>> \o SetToSeq(S \ {x})

\* extras.get(name, default), amounts in 1/100000 dollar
ExtraOr(extras, name, default) ==
    IF name \in DOMAIN extras THEN extras[name] ELSE default

\* the mill-rate path of _build_pilotage_breakdown (zone NORCAL whose extras
\* carry "mill_rate_per_grt")
MillRateBreakdown(zone, entry, vessel) ==
    LET extras == entry.extras
        total_mill == ExtraOr(extras, "mill_rate_per_grt", 9243)
                      + ExtraOr(extras, "pension_mill_rate", 4468)
                      + ExtraOr(extras, "pilot_boat_surcharge", 200)
        tonnage_charge == Money5(vessel.gross_tonnage * total_mill)
        draft_charge == Money5(draft_feet(vessel) * entry.bar.per_foot_rate)
        bar_subtotal == tonnage_charge + draft_charge
        board_ops == MulDivRound(bar_subtotal,
                                 ExtraOr(extras, "board_ops_percent", 6500), 100000)
        flats == Money5(ExtraOr(extras, "continuing_ed_flat", 4500000)
                        + ExtraOr(extras, "trainee_flat", 2000000))
        total == Max2(bar_subtotal + board_ops + flats, 300000)
        Line(n, label, class, amount) ==
            [sequence |-> n, leg_type |-> label, classification |-> class,
             base_charge |-> amount, surcharges |-> <<>>, extras |-> <<>>,
             total |-> amount]
    IN  [port_zone |-> zone,
         effective_date |-> entry.effective,
         legs |-> <<Line(1, "Bar Pilotage", "bar", bar_subtotal),
                    Line(2, "Board Ops Surcharge", "surcharge", board_ops),
                    Line(3, "Flat Surcharges", "flat", flats)>>,
         job_total |-> total,
         audit |-> [loa_feet |-> Money5(loa_feet(vessel)),
                    draft_feet |-> Money5(draft_feet(vessel)),
                    mill_rate_applied |-> Money5(total_mill),
                    applied_multiplier |-> 100, applied_multiplier_code |-> "",
                    extras_applied |-> <<"board_ops_percent", "continuing_ed_flat",
                                         "trainee_flat">>]]

\* what one turn of the per-leg loop charges; job holds what is fixed for the
\* job, acc the loop's variables on entry to the turn
LegCharges(job, acc, leg) ==
    LET component == _classify_leg(job.zone, leg)
        base_charge == ComponentAmount(job.components, component)
        surcharged == base_charge > 0 /\ job.applied_multiplier > 100
        surcharge_amt == MulDivRound(base_charge, job.applied_multiplier - 100, 100)
        sur_list == IF surcharged
                    THEN <<[code |-> job.applied_code,
                            multiplier |-> job.applied_multiplier,
                            amount |-> surcharge_amt]>>
                    ELSE <<>>
        with_extras == base_charge > 0 /\ ~acc.first_component_assigned
                       /\ DOMAIN acc.extras_registry # {}
        names == IF with_extras THEN SetToSeq(DOMAIN acc.extras_registry) ELSE <<>>
        extras_flat == [i \in 1..Len(names) |->
                           [code |-> names[i],
                            amount |-> Money5(acc.extras_registry[names[i]])]]
        with_night == base_charge > 0 /\ acc.night_charge > 0
        night_list == IF with_night
                      THEN <<[code |-> "night", amount |-> acc.night_charge]>>
                      ELSE <<>>
        leg_total == base_charge
                     + (IF surcharged THEN surcharge_amt ELSE 0)
                     + SumSeq([i \in 1..Len(extras_flat) |-> extras_flat[i].amount])
                     + (IF with_night THEN acc.night_charge ELSE 0)
    IN  [entry |-> [sequence |-> leg.sequence, leg_type |-> leg.leg_type,
                    classification |-> component, base_charge |-> base_charge,
                    surcharges |-> sur_list, extras |-> extras_flat \o night_list,
                    total |-> leg_total],
         names |-> names, with_extras |-> with_extras, with_night |-> with_night]

\* the loop body with the running total fed from the base charges alone
PriceLegTotalOfBases(job, acc, leg) ==
    LET c == LegCharges(job, acc, leg)
    IN  [legs_out |-> Append(acc.legs_out, c.entry),
         total |-> acc.total + c.entry.base_charge,
         extras_registry |-> IF c.with_extras THEN <<>> ELSE acc.extras_registry,
         extras_applied |-> acc.extras_applied \o c.names,
         first_component_assigned |-> acc.first_component_assigned \/ c.with_extras,
         night_charge |-> IF c.with_night THEN 0 ELSE acc.night_charge]

\* the loop body that forgets it has handed out the extras and the night flat
PriceLegExtrasEveryLeg(job, acc, leg) ==
    LET c == LegCharges(job, acc, leg)
    IN  [legs_out |-> Append(acc.legs_out, c.entry),
         total |-> acc.total + c.entry.total,
         extras_registry |-> acc.extras_registry,
         extras_applied |-> acc.extras_applied \o c.names,
         first_component_assigned |-> FALSE,
         night_charge |-> acc.night_charge]

\* the loop body: the state of the loop after the turn for leg
PriceLeg(job, acc, leg) ==
    LET c == LegCharges(job, acc, leg)
    IN  [legs_out |-> Append(acc.legs_out, c.entry),
         total |-> acc.total + c.entry.total,
         extras_registry |-> IF c.with_extras THEN <<>> ELSE acc.extras_registry,
         extras_applied |-> acc.extras_applied \o c.names,
         first_component_assigned |-> acc.first_component_assigned \/ c.with_extras,
         night_charge |-> IF c.with_night THEN 0 ELSE acc.night_charge]

RECURSIVE PriceLegs(_, _, _, _)
PriceLegs(job, acc, legs, i) ==
    IF i > Len(legs) THEN acc
    ELSE PriceLegs(job, PriceLeg(job, acc, legs[i]), legs, i + 1)

\* the two multipliers stacked when both are above 1
AppliedMultiplierStacked(weekend_mult, holiday_mult) ==
    IF weekend_mult > 100 /\ holiday_mult > 100
    THEN [m |-> (weekend_mult * holiday_mult) \div 100, code |-> "holiday"]
    ELSE IF holiday_mult > 100 THEN [m |-> holiday_mult, code |-> "holiday"]
    ELSE IF weekend_mult > 100 THEN [m |-> weekend_mult, code |-> "weekend"]
    ELSE [m |-> 100, code |-> ""]

\* the multiplier applied and its code: the weekend multiplier if above 1,
\* then the holiday multiplier if above that
AppliedMultiplier(weekend_mult, holiday_mult) ==
    LET after_weekend == IF weekend_mult > 100
                         THEN [m |-> weekend_mult, code |-> "weekend"]
                         ELSE [m |-> 100, code |-> ""]
    IN  IF holiday_mult > after_weekend.m
        THEN [m |-> holiday_mult, code |-> "holiday"]
        ELSE after_weekend

\* _build_pilotage_breakdown
_build_pilotage_breakdown(zone, entry, vessel, voyage, port_obj, legs) ==
    LET supplied_legs == IF legs = <<>> THEN _default_legs_for_zone(zone) ELSE legs
    IN  IF Upper(zone) = "NORCAL" /\ "mill_rate_per_grt" \in DOMAIN entry.extras
        THEN MillRateBreakdown(zone, entry, vessel)
        ELSE
        LET surcharges == entry.surcharges
            weekend_mult == IF is_weekend_arrival(voyage)
                            THEN surcharges.weekend_multiplier ELSE 100
            holiday_mult == IF _is_us_holiday(voyage.eta.date, port_obj.state)
                            THEN surcharges.holiday_multiplier ELSE 100
            applied == AppliedMultiplier(weekend_mult, holiday_mult)
            night_charge == IF surcharges.night_flat # 0
                               /\ (voyage.eta.hour < 6 \/ voyage.eta.hour >= 18)
                            THEN surcharges.night_flat * 100 ELSE 0
            job == [zone |-> zone,
                    components |-> _pilotage_component_amounts(vessel, entry),
                    applied_multiplier |-> applied.m, applied_code |-> applied.code]
            start == [legs_out |-> <<>>, total |-> 0,
                      extras_registry |-> entry.extras, extras_applied |-> <<>>,
                      first_component_assigned |-> FALSE,
                      night_charge |-> night_charge]
            done == PriceLegs(job, start, SortLegs(supplied_legs), 1)
        IN  [port_zone |-> zone,
             effective_date |-> entry.effective,
             legs |-> done.legs_out,
             job_total |-> done.total,
             audit |-> [loa_feet |-> Money5(loa_feet(vessel)),
                        draft_feet |-> Money5(draft_feet(vessel)),
                        applied_multiplier |-> applied.m,
                        applied_multiplier_code |-> applied.code,
                        extras_applied |-> done.extras_applied]]

\* ------------------------------------------------------------------------
\* Engine, store and fallback pricing (fee_engine.py: FeeEngine.__init__,
\* FeeCalculation, _get_pilotage_rate_for_port, _calc_pilotage_fallback,
\* calculate_pilotage_breakdown)
\* Amounts are cents; a nullable numeric column holds Null for NULL, else a
\* value >= 0.
\* ------------------------------------------------------------------------
Null == -1

NoRow == [id |-> 0]

\* FeeCalculation; estimated_range is <<>> for None, confidence in hundredths
FeeCalculation(code, base_amount, multipliers, final_amount, confidence, is_optional, estimated_range, manual_entry) ==
    [code |-> code, base_amount |-> base_amount, multipliers |-> multipliers,
     final_amount |-> final_amount, confidence |-> confidence,
     is_optional |-> is_optional, estimated_range |-> estimated_range,
     manual_entry |-> manual_entry]

\* FeeEngine(db)
NewEngine ==
    [constructed |-> TRUE, ytd_cbp_paid |-> 0, tonnage_year_paid |-> 0,
     contract_profile |-> "", show_legacy_optional |-> FALSE,
     _vessel_type_cache |-> <<>>, _pilotage_rate_cache |-> <<>>,
     _contract_adj_cache |-> <<>>]

\* the in-code table: base in dollars, per_foot in cents, draft_mult in hundredths
_LEGACY_PILOTAGE_PORT_RATES(code) ==
    CASE code = "LALB" -> [base |-> 3500, per_foot |-> 850, draft_mult |-> 115]
      [] code = "USOAK" -> [base |-> 3200, per_foot |-> 775, draft_mult |-> 112]
      [] code = "USSFO" -> [base |-> 4200, per_foot |-> 950, draft_mult |-> 116]
      [] code = "USSEA" -> [base |-> 4000, per_foot |-> 925, draft_mult |-> 118]
      [] code = "USPDX" -> [base |-> 3800, per_foot |-> 800, draft_mult |-> 120]
      [] code = "SFBAY" -> [base |-> 3500, per_foot |-> 875, draft_mult |-> 114]
      [] code = "PUGET" -> [base |-> 4000, per_foot |-> 925, draft_mult |-> 118]
      [] code = "COLRIV" -> [base |-> 3800, per_foot |-> 800, draft_mult |-> 120]
      [] OTHER -> [base |-> 3500, per_foot |-> 800, draft_mult |-> 115]

\* the query of _get_pilotage_rate_for_port: the possible first rows of the
\* matching rows ordered by effective_date descending (rows of one date come
\* in an order the database chooses)
PilotageRateQuery(st, port_obj, on) ==
    LET match == {r \in Range(st.pilotage_rates) :
                     r.port_code = port_obj.code /\ r.effective_date <= on}
    IN  IF match = {} THEN {NoRow}
        ELSE {r \in match : \A o \in match : o.effective_date <= r.effective_date}

\* _get_pilotage_rate_for_port: the possible [row, engine after the call]
_get_pilotage_rate_for_port(eng, st, port_obj, on) ==
    LET key == <<port_obj.code, on>>
    IN  IF key \in DOMAIN eng._pilotage_rate_cache
        THEN {[row |-> eng._pilotage_rate_cache[key], engine |-> eng]}
        ELSE {[row |-> r,
               engine |-> [eng EXCEPT !._pilotage_rate_cache = (key :> r) @@ @]] :
                 r \in PilotageRateQuery(st, port_obj, on)}

\* "x or default" on a nullable numeric column
OrElse(x, default) == IF x = Null \/ x = 0 THEN default ELSE x

\* the fallback formula without its final clamp
FallbackPriceUnclamped(vessel, voyage, port_obj, pr) ==
    LET db == pr # NoRow
        rates == _LEGACY_PILOTAGE_PORT_RATES(voyage.arrival_port_code)
        base == IF db THEN OrElse(pr.base_rate, 0) ELSE rates.base * 100
        per_foot == IF db THEN OrElse(pr.per_foot_rate, 0) ELSE rates.per_foot
        draft_mult == IF db THEN OrElse(pr.draft_multiplier, 100) ELSE rates.draft_mult
        loa_charge == MulDivRound(loa_feet(vessel), per_foot, 100000)
        base_amt == base + MulDivRound(loa_charge, draft_mult, 100)
        is_holiday == _is_us_holiday(voyage.eta.date, port_obj.state)
        multipliers == (IF is_weekend_arrival(voyage) THEN "weekend" :> 150 ELSE <<>>)
                       @@ (IF is_holiday THEN "holiday" :> 200 ELSE <<>>)
        final_mult == IF DOMAIN multipliers = {} THEN 100
                      ELSE SetMax({multipliers[k] : k \in DOMAIN multipliers})
    IN  FeeCalculation("PILOTAGE", base_amt, multipliers,
                       MulDivRound(base_amt, final_mult, 100), 75, FALSE, <<>>, FALSE)

\* the fallback price as it would be with the base amount clamped before
\* the weekend/holiday multiplier is applied
FallbackPriceClampedFirst(vessel, voyage, port_obj, pr) ==
    LET db == pr # NoRow
        unclamped == FallbackPriceUnclamped(vessel, voyage, port_obj, pr)
        min_charge == IF db THEN pr.minimum_charge ELSE 500000
        max_charge == IF db THEN pr.maximum_charge ELSE 3000000
        floored == IF min_charge # Null
                   THEN Max2(unclamped.base_amount, min_charge)
                   ELSE unclamped.base_amount
        capped == IF max_charge # Null THEN Min2(floored, max_charge) ELSE floored
        final_mult == IF unclamped.base_amount = 0 THEN 100
                      ELSE IF "holiday" \in DOMAIN unclamped.multipliers THEN 200
                      ELSE IF "weekend" \in DOMAIN unclamped.multipliers THEN 150
                      ELSE 100
    IN  [unclamped EXCEPT !.final_amount = MulDivRound(capped, final_mult, 100)]

FallbackPrice(vessel, voyage, port_obj, pr) ==
    LET db == pr # NoRow
        unclamped == FallbackPriceUnclamped(vessel, voyage, port_obj, pr)
        min_charge == IF db THEN pr.minimum_charge ELSE 500000
        max_charge == IF db THEN pr.maximum_charge ELSE 3000000
        floored == IF min_charge # Null
                   THEN Max2(unclamped.final_amount, min_charge)
                   ELSE unclamped.final_amount
        capped == IF max_charge # Null THEN Min2(floored, max_charge) ELSE floored
    IN  [unclamped EXCEPT !.final_amount = capped]

\* _calc_pilotage_fallback: the possible [calc, engine after the call]
_calc_pilotage_fallback(eng, st, vessel, voyage, port_obj) ==
    {[calc |-> FallbackPrice(vessel, voyage, port_obj, o.row), engine |-> o.engine] :
        o \in _get_pilotage_rate_for_port(eng, st, port_obj, voyage.eta.date)}

\* _resolve_port_zone ("" stands for None and for an empty code alike)
_resolve_port_zone(port_obj) ==
    IF port_obj.zone # "" THEN port_obj.zone
    ELSE IF port_obj.zone_code # "" THEN port_obj.zone_code
    ELSE IF port_obj.region # "" THEN port_obj.region
    ELSE port_obj.code

\* the breakdown returned when the registry lookup failed
FallbackBreakdown(zone, failure, fallback) ==
    [port_zone |-> zone,
     effective_date |-> NoEntry.effective,
     legs |-> <<[sequence |-> 1, leg_type |-> "fallback", classification |-> "",
                 base_charge |-> fallback.base_amount, surcharges |-> <<>>,
                 extras |-> <<>>, total |-> fallback.final_amount]>>,
     job_total |-> fallback.final_amount,
     audit |-> [fallback |-> TRUE,
                reason |-> [error |-> failure.error, path |-> failure.path],
                confidence |-> fallback.confidence]]

\* calculate_pilotage_breakdown with an except clause that names only
\* KeyError and ValueError and takes the missing-field error for neither
calculate_pilotage_breakdown_uncaught(eng, reg, st, vessel, voyage, legs, port_obj) ==
    LET zone == _resolve_port_zone(port_obj)
    IN  UNION {
          IF loaded.ok
          THEN {[raised |-> FALSE, engine |-> eng,
                 breakdown |-> _build_pilotage_breakdown(zone, loaded.entry, vessel,
                                                         voyage, port_obj, legs)]}
          ELSE IF loaded.error \notin {"KeyError", "ValueError"}
          THEN {[raised |-> TRUE, engine |-> eng, breakdown |-> loaded]}
          ELSE {[raised |-> FALSE, engine |-> f.engine,
                 breakdown |-> FallbackBreakdown(zone, loaded, f.calc)] :
                   f \in _calc_pilotage_fallback(eng, st, vessel, voyage, port_obj)} :
          loaded \in load_pilotage_rates(reg, zone, voyage.eta.date)}

\* calculate_pilotage_breakdown: the possible [raised, breakdown, engine after];
\* an error the except clause does not name leaves the call as raised
calculate_pilotage_breakdown(eng, reg, st, vessel, voyage, legs, port_obj) ==
    LET zone == _resolve_port_zone(port_obj)
    IN  UNION {
          IF loaded.ok
          THEN {[raised |-> FALSE, engine |-> eng,
                 breakdown |-> _build_pilotage_breakdown(zone, loaded.entry, vessel,
                                                         voyage, port_obj, legs)]}
          ELSE IF loaded.error \notin {"MissingRateField", "KeyError", "ValueError"}
          THEN {[raised |-> TRUE, engine |-> eng, breakdown |-> loaded]}
          ELSE {[raised |-> FALSE, engine |-> f.engine,
                 breakdown |-> FallbackBreakdown(zone, loaded, f.calc)] :
                   f \in _calc_pilotage_fallback(eng, st, vessel, voyage, port_obj)} :
          loaded \in load_pilotage_rates(reg, zone, voyage.eta.date)}

\* ------------------------------------------------------------------------
\* Pilotage jobs the model draws from
\* ------------------------------------------------------------------------
MaxLegs == 3

MaxDay == 3

\* a sound-style tariff: weekend above holiday, no night flat, two extras, one
\* of them with a third decimal, a priced river component
SoundRates ==
    [bar_base |-> 800, bar_per_foot |-> 4, bar_draft |-> 100,
     bay_per_foot |-> 3, bay_min |-> 400, river_per_foot |-> 1, river_min |-> 300,
     weekend |-> 150, holiday |-> 125, night |-> 0,
     extras |-> [n \in {"transportation", "boat"} |->
                    IF n = "boat" THEN 2550500 ELSE 15000000]]

\* a river-style tariff: multipliers that surcharge nothing, no extras
RiverRates ==
    [bar_base |-> 900, bar_per_foot |-> 6, bar_draft |-> 105,
     bay_per_foot |-> 0, bay_min |-> 0, river_per_foot |-> 2, river_min |-> 350,
     weekend |-> 90, holiday |-> 100, night |-> 250, extras |-> <<>>]

\* the bar pilots' mill-rate tariff; the extras it leaves out take the
\* defaults of the code
MillRates ==
    [bar_base |-> 0, bar_per_foot |-> 7, bar_draft |-> 100,
     bay_per_foot |-> 0, bay_min |-> 0, river_per_foot |-> 0, river_min |-> 0,
     weekend |-> 150, holiday |-> 200, night |-> 400,
     extras |-> [n \in {"mill_rate_per_grt", "board_ops_percent"} |->
                    IF n = "mill_rate_per_grt" THEN 9243 ELSE 7000]]

StandardRegistry ==
    [z \in {"NORCAL", "PUGET", "COLUMBIA"} |->
        CASE z = "NORCAL" -> <<RateVersion(1, RatesOf(1))>>
          [] z = "PUGET" -> <<RateVersion(0, SoundRates)>>
          [] OTHER -> <<RateVersion(0, RiverRates)>>]

MillRegistry ==
    [z \in {"NORCAL", "PUGET"} |->
        IF z = "NORCAL" THEN <<RateVersion(0, MillRates)>>
        ELSE <<RateVersion(1, SoundRates), RateVersion(0, RiverRates)>>]

DamagedRegistry ==
    [z \in {"NORCAL", "PUGET"} |->
        IF z = "NORCAL"
        THEN <<Damaged(RateVersion(0, RatesOf(0)),
                       {<<"bay", "minimum">>, <<"bay", "per_foot_rate">>})>>
        ELSE <<>>]

PilotageRegistries == {StandardRegistry, MillRegistry, DamagedRegistry}

Port(code, zone, zone_code, region, state, is_california, is_cascadia) ==
    [code |-> code, zone |-> zone, zone_code |-> zone_code, region |-> region,
     state |-> state, is_california |-> is_california, is_cascadia |-> is_cascadia]

Ports ==
    {Port("SFBAY", "NORCAL", "", "", "CA", TRUE, FALSE),
     Port("PUGET", "", "", "", "WA", FALSE, TRUE),
     Port("USPDX", "", "COLUMBIA", "", "OR", FALSE, TRUE),
     Port("LALB", "", "", "socal", "CA", TRUE, FALSE)}

PilotageRate(port_code, effective_date, base_rate, per_foot_rate, draft_multiplier, minimum_charge, maximum_charge) ==
    [port_code |-> port_code, effective_date |-> effective_date,
     base_rate |-> base_rate, per_foot_rate |-> per_foot_rate,
     draft_multiplier |-> draft_multiplier, minimum_charge |-> minimum_charge,
     maximum_charge |-> maximum_charge]

\* pilotage_rates tables: none, or rows for two ports with NULLs and a zero
PilotageRateTables ==
    {<<>>,
     <<PilotageRate("LALB", 0, 200000, 500, 0, Null, 400000),
       PilotageRate("SFBAY", 1, Null, 1000, 120, 600000, Null),
       PilotageRate("SFBAY", 0, 100000, 0, Null, 900000, 700000)>>}

Vessel(gross_tonnage, net_tonnage, loa_meters, draft_meters) ==
    [vessel_type |-> "general_cargo",
     gross_tonnage |-> gross_tonnage, net_tonnage |-> net_tonnage,
     loa_meters |-> loa_meters, draft_meters |-> draft_meters]

Vessels == {Vessel(0, 0, 0, 0), Vessel(10000, 5000, 200, 10), Vessel(50000, 20000, 300, 12)}

LegLabels == {"Bar Transit", "Harbor Shift", "River Transit", "Anchorage"}

\* leg lists of up to MaxLegs legs, given in sequence order or against it
LegLists ==
    UNION {{[i \in 1..n |-> [sequence |-> IF up THEN i ELSE n + 1 - i,
                             leg_type |-> labels[i]]] :
              labels \in [1..n -> LegLabels], up \in BOOLEAN} : n \in 0..MaxLegs}

\* ETAs: a day of the calendar, before dawn or at noon
Etas == {[date |-> d, hour |-> h] : d \in 0..MaxDay, h \in {5, 12}}

Voyage(previous_port_code, arrival_port_code, eta) ==
    [previous_port_code |-> previous_port_code,
     arrival_port_code |-> arrival_port_code, eta |-> eta, days_alongside |-> 2]

\* ------------------------------------------------------------------------
\* calculate_pilotage_breakdown on its own
\* ------------------------------------------------------------------------
CalculatePilotageBreakdownCall(vessel, eta, legs) ==
    /\ call.op = "idle"
    /\ LET voyage == Voyage("CNSHA", port.code, eta)
       IN  /\ \E o \in calculate_pilotage_breakdown(engine, registry, store, vessel,
                                                    voyage, legs, port) :
                  /\ result' = [raised |-> o.raised, breakdown |-> o.breakdown]
                  /\ engine' = o.engine
           /\ call' = [op |-> "calculate_pilotage_breakdown", vessel |-> vessel,
                       voyage |-> voyage, legs |-> legs]
    /\ UNCHANGED <<registry, store, port>>

InitPilotage ==
    /\ registry \in PilotageRegistries
    /\ store \in {[EmptyStore EXCEPT !.pilotage_rates = t] : t \in PilotageRateTables}
    /\ port \in Ports
    /\ engine = NewEngine
    /\ call = Idle
    /\ result = NoResult

NextPilotage ==
    \E vessel \in Vessels, eta \in Etas, legs \in LegLists :
        CalculatePilotageBreakdownCall(vessel, eta, legs)

SpecPilotage == InitPilotage /\ [][NextPilotage]_vars

\* ------------------------------------------------------------------------
\* Fee rows and the federal and state components (fee_engine.py: _active_fee,
\* _infer_arrival_type, _cbp_rate_and_cap_by_date, _calc_cbp, _calc_aphis,
\* _calc_tonnage_tax, _calc_ca_misp, _calc_mx; models.py: Fee)
\* A Fee row holds rate and cap_amount in 1/10000 dollar (Numeric(12, 4)),
\* Null for a NULL cap, "" for a NULL string, and applies_cascadia as "",
\* "true" or "false". Amounts paid are in 1/10000 dollar as well.
\* ------------------------------------------------------------------------
Fee(code, rate, cap_amount, cap_period, applies_state, applies_port_code, applies_cascadia, effective_start, effective_end) ==
    [code |-> code, rate |-> rate, cap_amount |-> cap_amount,
     cap_period |-> cap_period, applies_state |-> applies_state,
     applies_port_code |-> applies_port_code,
     applies_cascadia |-> applies_cascadia,
     effective_start |-> effective_start, effective_end |-> effective_end]

\* _money of an amount held in 1/10000 dollar, in cents
Money4(x) == RoundHalfUp(x, 100)

\* str.lower() on the cap periods the model uses
Lower(text) ==
    CASE text = "CALENDAR_YEAR" -> "calendar_year"
      [] text = "Calendar_Year" -> "calendar_year"
      [] OTHER -> text

\* the filter of the loop of _active_fee: row f is passed over
SkippedFee(f, on, port_obj) ==
    \/ f.effective_end # Null /\ f.effective_end < on
    \/ f.applies_port_code # "" /\ f.applies_port_code # port_obj.code
    \/ f.applies_state # "" /\ f.applies_state # port_obj.state
    \/ f.applies_cascadia # "" /\ (f.applies_cascadia = "true") # port_obj.is_cascadia

\* the lookup without the scope columns: the latest row in its window
_active_fee_unscoped(st, code, on, port_obj) ==
    LET rows == {f \in Range(st.fees) : f.code = code /\ f.effective_start <= on}
        kept == {f \in rows : ~(f.effective_end # Null /\ f.effective_end < on)}
    IN  IF kept = {} THEN {NoRow}
        ELSE {f \in kept : \A g \in kept : g.effective_start <= f.effective_start}

\* _active_fee as it would be with the rows ordered oldest first
_active_fee_oldest(st, code, on, port_obj) ==
    LET rows == {f \in Range(st.fees) : f.code = code /\ f.effective_start <= on}
        kept == {f \in rows : ~SkippedFee(f, on, port_obj)}
    IN  IF kept = {} THEN {NoRow}
        ELSE {f \in kept : \A g \in kept : g.effective_start >= f.effective_start}

\* _active_fee: the rows the call can return (NoRow for None). The query
\* orders by effective_start descending; rows of one start date come in an
\* order the database chooses.
_active_fee(st, code, on, port_obj) ==
    LET rows == {f \in Range(st.fees) : f.code = code /\ f.effective_start <= on}
        kept == {f \in rows : ~SkippedFee(f, on, port_obj)}
    IN  IF kept = {} THEN {NoRow}
        ELSE {f \in kept : \A g \in kept : g.effective_start <= f.effective_start}

\* the first day of fiscal year 2026 (2025-10-01) on the model's calendar
FY26_START == 2

\* _cbp_rate_and_cap_by_date, in cents
_cbp_rate_and_cap_by_date(on) ==
    IF on >= FY26_START THEN [rate |-> 58703, cap |-> 799940]
    ELSE [rate |-> 57181, cap |-> 779205]

\* a capping that does not floor what remains under the cap at zero
CappedChargeUnfloored(base, cap, paid) == Min2(base, cap - paid)

\* min(base, max(0, cap - paid)) on cents
CappedCharge(base, cap, paid) == Min2(base, Max2(0, cap - paid))

\* _calc_cbp: the possible calculations
_calc_cbp(eng, st, voyage, port_obj) ==
    {IF db # NoRow
     THEN LET base == Money4(db.rate)
              capped == Lower(db.cap_period) = "calendar_year"
                        /\ db.cap_amount # Null /\ db.cap_amount # 0
              final_amt == IF capped
                           THEN CappedCharge(base, Money4(db.cap_amount),
                                             Money4(eng.ytd_cbp_paid))
                           ELSE base
          IN  FeeCalculation(db.code, base, <<>>, final_amt, 100, FALSE, <<>>, FALSE)
     ELSE LET sched == _cbp_rate_and_cap_by_date(voyage.eta.date)
          IN  FeeCalculation("CBP_USER_FEE", sched.rate, <<>>,
                             CappedCharge(sched.rate, sched.cap, Money4(eng.ytd_cbp_paid)),
                             100, FALSE, <<>>, FALSE) :
     db \in _active_fee(st, "CBP_COMMERCIAL_VESSEL_ARRIVAL_FEE", voyage.eta.date, port_obj)}

\* a line item of compute
LineItem(code, amount) == [code |-> code, amount |-> amount]

\* step 1 of compute: the possible CBP line items
ComputeCbp(st, ctx, port_obj) ==
    {IF db_cbp # NoRow
     THEN LET base == Money4(db_cbp.rate)
              cap == IF db_cbp.cap_amount = Null THEN 0 ELSE Money4(db_cbp.cap_amount)
              charge == IF Lower(db_cbp.cap_period) = "calendar_year" /\ cap > 0
                        THEN CappedCharge(base, cap, Money4(ctx.ytd_cbp_paid))
                        ELSE base
          IN  LineItem(db_cbp.code, charge)
     ELSE LET sched == _cbp_rate_and_cap_by_date(ctx.arrival_date)
          IN  LineItem("CBP_USER_FEE",
                       CappedCharge(sched.rate, sched.cap, Money4(ctx.ytd_cbp_paid))) :
     db_cbp \in _active_fee(st, "CBP_COMMERCIAL_VESSEL_ARRIVAL_FEE", ctx.arrival_date, port_obj)}

\* the first two characters of a previous-port code, stripped and upper-cased
CountryPrefix(previous_port_code) ==
    CASE previous_port_code \in {"USLAX", "uslax", "USSEA"} -> "US"
      [] previous_port_code = "CNSHA" -> "CN"
      [] previous_port_code = "MXZLO" -> "MX"
      [] previous_port_code = "CAVAN" -> "CA"
      [] OTHER -> ""

\* VoyageContext.arrival_type
arrival_type(voyage) ==
    IF voyage.previous_port_code # "" /\ CountryPrefix(voyage.previous_port_code) = "US"
    THEN "COASTWISE" ELSE "FOREIGN"

\* _infer_arrival_type; fallback is "" for None
_infer_arrival_type(previous_port_code, fallback) ==
    IF CountryPrefix(previous_port_code) = "US" THEN "COASTWISE"
    ELSE IF previous_port_code # "" THEN "FOREIGN"
    ELSE IF fallback \in {"COASTWISE", "FOREIGN"} THEN fallback
    ELSE IF fallback = "DOMESTIC" THEN "COASTWISE"
    ELSE "FOREIGN"

\* APHIS_RISK_RATES, in cents
APHIS_RISK_RATES(risk) ==
    CASE risk = "high_risk" -> 290373
      [] risk = "medium_risk" -> 200000
      [] risk = "low_risk" -> 150000
      [] risk = "cascadia" -> 83751
      [] risk = "domestic" -> 50000

HIGH_RISK_COUNTRIES == {"CN", "VN", "TH", "ID", "MY", "PH", "IN", "KR"}

\* what the live APHIS lookup gave: raised, or the two fees (Null when the
\* page gave no Decimal), in 1/10000 dollar
AphisLive(raised, standard_fee, cascadia_fee) ==
    [raised |-> raised, standard_fee |-> standard_fee, cascadia_fee |-> cascadia_fee]

\* the APHIS fee with the high-risk origins looked at before the cascadia flag
_calc_aphis_risk_first(st, vessel, voyage, port_obj, live) ==
    {IF db # NoRow
     THEN FeeCalculation(db.code, Money4(db.rate), <<>>, Money4(db.rate), 95,
                         FALSE, <<>>, FALSE)
     ELSE LET prev_cc == CountryPrefix(voyage.previous_port_code)
              risk == IF arrival_type(voyage) = "COASTWISE" \/ prev_cc = "US"
                      THEN "domestic"
                      ELSE IF prev_cc \in HIGH_RISK_COUNTRIES THEN "high_risk"
                      ELSE IF port_obj.is_cascadia THEN "cascadia"
                      ELSE "medium_risk"
              dyn_base == IF live.raised THEN Null
                          ELSE IF port_obj.is_cascadia /\ live.cascadia_fee # Null
                          THEN Money4(live.cascadia_fee)
                          ELSE IF live.standard_fee # Null THEN Money4(live.standard_fee)
                          ELSE Null
              base == IF dyn_base = Null THEN APHIS_RISK_RATES(risk) ELSE dyn_base
          IN  FeeCalculation("APHIS_AQI", base, <<>>, base, 95, FALSE, <<>>, FALSE) :
     db \in _active_fee(st, "APHIS_COMMERCIAL_VESSEL", voyage.eta.date, port_obj)}

\* _calc_aphis: the possible calculations
_calc_aphis(st, vessel, voyage, port_obj, live) ==
    {IF db # NoRow
     THEN FeeCalculation(db.code, Money4(db.rate), <<>>, Money4(db.rate), 95,
                         FALSE, <<>>, FALSE)
     ELSE LET prev_cc == CountryPrefix(voyage.previous_port_code)
              risk == IF arrival_type(voyage) = "COASTWISE" \/ prev_cc = "US"
                      THEN "domestic"
                      ELSE IF port_obj.is_cascadia THEN "cascadia"
                      ELSE IF prev_cc \in HIGH_RISK_COUNTRIES THEN "high_risk"
                      ELSE "medium_risk"
              dyn_base == IF live.raised THEN Null
                          ELSE IF port_obj.is_cascadia /\ live.cascadia_fee # Null
                          THEN Money4(live.cascadia_fee)
                          ELSE IF live.standard_fee # Null THEN Money4(live.standard_fee)
                          ELSE Null
              base == IF dyn_base = Null THEN APHIS_RISK_RATES(risk) ELSE dyn_base
          IN  FeeCalculation("APHIS_AQI", base, <<>>, base, 95, FALSE, <<>>, FALSE) :
     db \in _active_fee(st, "APHIS_COMMERCIAL_VESSEL", voyage.eta.date, port_obj)}

\* tonnage_schedule.py, in cents per net ton
LOWER_RATE_PER_TON == 2

LOWER_CAP_PER_TON_PER_YEAR == 10

\* the tonnage tax with a statutory fallback that forgets what was paid
_calc_tonnage_tax_unnetted(eng, st, vessel, voyage, port_obj) ==
    {IF db # NoRow
     THEN LET rate == Money4(db.rate)
              base == vessel.net_tonnage * rate
              capped == db.cap_amount # Null /\ db.cap_amount # 0 /\ db.cap_period # ""
              final_amt == IF capped
                           THEN Min2(base, Max2(0, Money4(db.cap_amount)
                                                   - Money4(eng.tonnage_year_paid)))
                           ELSE base
          IN  FeeCalculation(db.code, base, <<>>, final_amt, 98, FALSE, <<>>, FALSE)
     ELSE LET base == Max2(0, vessel.net_tonnage * LOWER_RATE_PER_TON)
          IN  FeeCalculation("TONNAGE_TAX", base, <<>>, base, 98, FALSE, <<>>, FALSE) :
     db \in _active_fee(st, "TONNAGE_TAX_PER_TON", voyage.eta.date, port_obj)}

\* _calc_tonnage_tax: the possible calculations (net tonnage in whole tons)
_calc_tonnage_tax(eng, st, vessel, voyage, port_obj) ==
    {IF db # NoRow
     THEN LET rate == Money4(db.rate)
              base == vessel.net_tonnage * rate
              capped == db.cap_amount # Null /\ db.cap_amount # 0 /\ db.cap_period # ""
              final_amt == IF capped
                           THEN Min2(base, Max2(0, Money4(db.cap_amount)
                                                   - Money4(eng.tonnage_year_paid)))
                           ELSE base
          IN  FeeCalculation(db.code, base, <<>>, final_amt, 98, FALSE, <<>>, FALSE)
     ELSE IF vessel.net_tonnage <= 0
     THEN FeeCalculation("TONNAGE_TAX", 0, <<>>, 0, 98, FALSE, <<>>, FALSE)
     ELSE LET base == vessel.net_tonnage * LOWER_RATE_PER_TON
              cap_total == vessel.net_tonnage * LOWER_CAP_PER_TON_PER_YEAR
              remaining == Max2(0, cap_total - Money4(eng.tonnage_year_paid))
          IN  FeeCalculation("TONNAGE_TAX", base, <<>>, Min2(base, remaining), 98,
                             FALSE, <<>>, FALSE) :
     db \in _active_fee(st, "TONNAGE_TAX_PER_TON", voyage.eta.date, port_obj)}

\* MISP_INFO["current_fee"], "$1000 per voyage (300+ GT vessels)", with all but
\* digits and dots taken out: 1000300 dollars, in cents
MispCurrentFeeCleaned == 100030000

\* what the live MISP snapshot gave: raised, or the amounts seen on the page,
\* each already cleaned, in cents
MispLive(raised, possible_amounts_seen) ==
    [raised |-> raised, possible_amounts_seen |-> possible_amounts_seen]

\* _calc_ca_misp: the possible calculations
_calc_ca_misp(st, voyage, port_obj, live) ==
    {IF db # NoRow
     THEN FeeCalculation(db.code, Money4(db.rate), <<>>, Money4(db.rate), 100,
                         FALSE, <<>>, FALSE)
     ELSE LET amount == IF live.raised THEN 100000
                        ELSE IF live.possible_amounts_seen # <<>>
                        THEN Head(live.possible_amounts_seen)
                        ELSE MispCurrentFeeCleaned
          IN  FeeCalculation("CA_MISP", amount, <<>>, amount, 100, FALSE, <<>>, FALSE) :
     db \in _active_fee(st, "CA_MISP_PER_VOYAGE", voyage.eta.date, port_obj)}

\* MX_FALLBACK.get(port.code, 250), in cents
MX_FALLBACK(code) ==
    CASE code = "LALB" -> 35000
      [] code = "USOAK" -> 32500
      [] code = "USSFO" -> 37500
      [] code = "USSEA" -> 30000
      [] code = "USPDX" -> 27500
      [] code = "SFBAY" -> 32500
      [] code = "PUGET" -> 30000
      [] code = "COLRIV" -> 27500
      [] code = "STKN" -> 27500
      [] OTHER -> 25000

\* _calc_mx: the possible calculations (the live snapshot only words the details)
_calc_mx(st, voyage, port_obj) ==
    {IF db # NoRow
     THEN FeeCalculation(db.code, Money4(db.rate), <<>>, Money4(db.rate), 95,
                         FALSE, <<>>, FALSE)
     ELSE FeeCalculation("MARINE_EXCHANGE", MX_FALLBACK(port_obj.code), <<>>,
                         MX_FALLBACK(port_obj.code), 95, FALSE, <<>>, FALSE) :
     db \in _active_fee(st, "MX_VTS_PER_CALL", voyage.eta.date, port_obj)}

\* ------------------------------------------------------------------------
\* Dockage, towage, optional services (dockage.py: DockageEngine;
\* fee_engine.py: _calc_dockage, _get_vessel_type_config, _calc_tugboats,
\* _optional_services, _calc_pilotage)
\* The dockage engine takes the LOA in 1/32 meter and holds the daily rate in
\* 1/32 dollar: every tier of the tables is 50 m wide and every step between
\* tiers a multiple of 50 dollars, so the rate of such a length is a whole
\* number of 1/32 dollars, which binary floating point carries exactly.
\* ------------------------------------------------------------------------
TierLengths == <<100, 150, 200, 250, 300, 350, 400>>

POLA_RATES == <<500, 1500, 3500, 7500, 14000, 21000, 35000>>

OAK_RATES == <<450, 1200, 3000, 6800, 12500, 19000, 31000>>

NWSA_RATES == <<600, 1800, 4200, 9000, 15500, 23000, 38000>>

\* DockageEngine._interpolate_rate: loa in 1/32 meter, the rate in 1/32 dollar
_interpolate_rate(loa, table) ==
    LET n == Len(TierLengths)
    IN  IF loa <= 32 * TierLengths[1] THEN 32 * table[1]
        ELSE IF loa >= 32 * TierLengths[n]
        THEN 32 * table[n]
             + ((table[n] - table[n - 1]) \div (TierLengths[n] - TierLengths[n - 1]))
               * (loa - 32 * TierLengths[n])
        ELSE LET k == CHOOSE j \in 1..(n - 1) :
                          /\ 32 * TierLengths[j] <= loa /\ loa <= 32 * TierLengths[j + 1]
                          /\ \A i \in 1..(j - 1) :
                                ~(32 * TierLengths[i] <= loa /\ loa <= 32 * TierLengths[i + 1])
             IN  32 * table[k]
                 + ((loa - 32 * TierLengths[k]) * (table[k + 1] - table[k]))
                   \div (TierLengths[k + 1] - TierLengths[k])

\* the table DockageEngine.calculate takes for a port code
DockageTable(port_code) ==
    IF port_code \in {"LALB", "USLAX", "USLGB"} THEN POLA_RATES
    ELSE IF port_code \in {"OAK", "USOAK", "SFBAY"} THEN OAK_RATES
    ELSE IF port_code \in {"USSEA", "USTAC", "PUGET", "NWSA"} THEN NWSA_RATES
    ELSE POLA_RATES

\* _money of dockage.py on a rate held in 1/32 dollar, in cents: quantize
\* with no rounding argument
DockageMoney(x) == RoundHalfEven(x * 100, 32)

\* DockageEngine.calculate: daily rate and total, in cents; loa_meters in
\* 1/32 meter
DockageCalculate(port_code, loa_meters, days) ==
    LET daily_rate == _interpolate_rate(loa_meters, DockageTable(port_code))
        billable_periods == Max2(1, days)
    IN  [base_daily_rate |-> DockageMoney(daily_rate),
         billable_periods |-> billable_periods,
         total_amount |-> DockageMoney(daily_rate * billable_periods)]

_calc_dockage(vessel, voyage, port_obj) ==
    LET days == IF voyage.days_alongside = 0 THEN 1 ELSE voyage.days_alongside
        res == DockageCalculate(port_obj.code, 32 * vessel.loa_meters, days)
    IN  FeeCalculation("DOCKAGE", res.base_daily_rate, <<>>, res.total_amount, 90,
                       FALSE, <<>>, FALSE)

\* _get_vessel_type_config: [cfg (NoRow for None), engine after the call];
\* type_code is unique in the table
_get_vessel_type_config(eng, st, code) ==
    IF code \in DOMAIN eng._vessel_type_cache
    THEN [cfg |-> eng._vessel_type_cache[code], engine |-> eng]
    ELSE LET rows == {r \in Range(st.vessel_types) : r.type_code = code}
             cfg == IF rows = {} THEN NoRow ELSE CHOOSE r \in rows : TRUE
         IN  [cfg |-> cfg,
              engine |-> [eng EXCEPT !._vessel_type_cache = (code :> cfg) @@ @]]

\* the tug estimate with a placeholder that is not flagged for manual entry
_calc_tugboats_priced_placeholder(eng, st, vessel, voyage) ==
    LET gt == vessel.gross_tonnage
    IN  IF gt <= 0
        THEN [calc |-> FeeCalculation("TUGBOAT", 0, <<>>, 0, 40, TRUE, <<>>, FALSE),
              engine |-> eng]
        ELSE LET looked == _get_vessel_type_config(eng, st, vessel.vessel_type)
                 vt_cfg == looked.cfg
                 configured == vt_cfg # NoRow /\ vt_cfg.typical_tug_count # Null
                               /\ vt_cfg.typical_tug_count > 0
                 tugs_per_move == IF configured THEN vt_cfg.typical_tug_count * 10
                                  ELSE IF gt < 20000 THEN 15
                                  ELSE IF gt < 60000 THEN 20
                                  ELSE 25
                 hourly_rate == IF gt < 20000 THEN 1800
                                ELSE IF gt < 60000 THEN 2400
                                ELSE 3200
                 \* 2 moves * tugs * 2.5 hours, times the hourly rate, in dollars
                 base_cost == (tugs_per_move * hourly_rate) \div 2
                 total_cost == base_cost * 118
             IN  [calc |-> FeeCalculation("TOWAGE", hourly_rate * 100, <<>>, total_cost,
                                          75, FALSE, <<>>, FALSE),
                  engine |-> looked.engine]

\* _calc_tugboats: [calc, engine after the call]; tug counts in tenths
_calc_tugboats(eng, st, vessel, voyage) ==
    LET gt == vessel.gross_tonnage
    IN  IF gt <= 0
        THEN [calc |-> FeeCalculation("TUGBOAT", 0, <<>>, 0, 40, TRUE, <<>>, TRUE),
              engine |-> eng]
        ELSE LET looked == _get_vessel_type_config(eng, st, vessel.vessel_type)
                 vt_cfg == looked.cfg
                 configured == vt_cfg # NoRow /\ vt_cfg.typical_tug_count # Null
                               /\ vt_cfg.typical_tug_count > 0
                 tugs_per_move == IF configured THEN vt_cfg.typical_tug_count * 10
                                  ELSE IF gt < 20000 THEN 15
                                  ELSE IF gt < 60000 THEN 20
                                  ELSE 25
                 hourly_rate == IF gt < 20000 THEN 1800
                                ELSE IF gt < 60000 THEN 2400
                                ELSE 3200
                 \* 2 moves * tugs * 2.5 hours, times the hourly rate, in dollars
                 base_cost == (tugs_per_move * hourly_rate) \div 2
                 total_cost == base_cost * 118
             IN  [calc |-> FeeCalculation("TOWAGE", hourly_rate * 100, <<>>, total_cost,
                                          75, FALSE, <<>>, FALSE),
                  engine |-> looked.engine]

\* _optional_services
_optional_services(voyage, include_legacy) ==
    <<FeeCalculation("LINE_HANDLING", 150000, <<>>, 150000, 80, TRUE,
                     <<100000, 250000>>, FALSE)>>
    \o (IF include_legacy
        THEN <<FeeCalculation("LAUNCH_SERVICE", 80000, <<>>, 80000, 75, TRUE,
                              <<50000, 150000>>, FALSE),
               FeeCalculation("GARBAGE", 60000, <<>>, 60000, 90, TRUE,
                              <<40000, 100000>>, FALSE)>>
             \o (IF voyage.days_alongside > 1
                 THEN LET amt == 20000 * voyage.days_alongside
                      IN  <<FeeCalculation("FRESH_WATER", amt, <<>>, amt, 85, TRUE,
                                           <<MulDivRound(amt, 8, 10),
                                             MulDivRound(amt, 12, 10)>>, FALSE)>>
                 ELSE <<>>)
        ELSE <<>>)

\* the calculation _calc_pilotage makes of a breakdown
PilotageCalculation(breakdown) ==
    LET audit == breakdown.audit
        code == IF "applied_multiplier_code" \in DOMAIN audit
                THEN audit.applied_multiplier_code ELSE ""
        mult_value == IF "applied_multiplier" \in DOMAIN audit
                      THEN audit.applied_multiplier ELSE 100
    IN  FeeCalculation("PILOTAGE",
                       SumSeq([i \in DOMAIN breakdown.legs |-> breakdown.legs[i].base_charge]),
                       IF code # "" /\ mult_value > 100 THEN code :> mult_value ELSE <<>>,
                       breakdown.job_total, 95, FALSE, <<>>, FALSE)

\* _calc_pilotage: the possible [raised, calc, breakdown, engine after the call]
_calc_pilotage(eng, reg, st, vessel, voyage, port_obj, legs) ==
    {[raised |-> o.raised,
      calc |-> IF o.raised THEN NoRow ELSE PilotageCalculation(o.breakdown),
      breakdown |-> o.breakdown,
      engine |-> o.engine] :
        o \in calculate_pilotage_breakdown(eng, reg, st, vessel, voyage, legs, port_obj)}

\* ------------------------------------------------------------------------
\* The contract overlay, the totals and calculate_comprehensive
\* (fee_engine.py: _get_contract_adjustments, calculate_comprehensive;
\* models.py: ContractAdjustment)
\* A ContractAdjustment row holds multiplier in 1/10000 (Numeric(8, 4)) and
\* offset in cents, Null for NULL; port_code is "" for NULL.
\* ------------------------------------------------------------------------
ContractAdjustment(profile, fee_code, port_code, multiplier, offset, effective_start, effective_end) ==
    [profile |-> profile, fee_code |-> fee_code, port_code |-> port_code,
     multiplier |-> multiplier, offset |-> offset,
     effective_start |-> effective_start, effective_end |-> effective_end]

\* the rows the query of _get_contract_adjustments selects
ContractRows(st, profile, port_obj, on) ==
    {r \in Range(st.adjustments) :
        /\ r.profile = profile
        /\ r.effective_start <= on
        /\ (r.effective_end = Null \/ r.effective_end >= on)
        /\ (r.port_code = "" \/ r.port_code = port_obj.code)}

\* the mappings the loop over the rows can build: the rows come in an order
\* the database chooses and a later row of a fee code replaces an earlier one
ContractMappings(rows) ==
    LET codes == {r.fee_code : r \in rows}
        picks == {m \in [codes -> rows] : \A c \in codes : m[c].fee_code = c}
    IN  {[c \in codes |->
            [multiplier |-> IF m[c].multiplier = Null \/ m[c].multiplier = 0
                            THEN 10000 ELSE m[c].multiplier,
             offset |-> m[c].offset]] : m \in picks}

\* _get_contract_adjustments: the possible [mapping, engine after the call]
_get_contract_adjustments(eng, st, profile, port_obj, on) ==
    LET cache_key == <<profile, port_obj.code>>
    IN  IF cache_key \in DOMAIN eng._contract_adj_cache
        THEN {[mapping |-> eng._contract_adj_cache[cache_key], engine |-> eng]}
        ELSE {[mapping |-> m,
               engine |-> [eng EXCEPT !._contract_adj_cache = (cache_key :> m) @@ @]] :
                 m \in ContractMappings(ContractRows(st, profile, port_obj, on))}

\* the body of the overlay loop for one calculation
ApplyContract(calc, adj_map) ==
    IF calc.code \notin DOMAIN adj_map THEN calc
    ELSE LET adj == adj_map[calc.code]
             scaled == adj.multiplier # 10000
             existing == IF "contract" \in DOMAIN calc.multipliers
                         THEN calc.multipliers["contract"] ELSE 100
             multiplied == IF scaled
                           THEN [calc EXCEPT
                                   !.multipliers = ("contract" :> MulDivRound(existing, adj.multiplier, 10000)) @@ @,
                                   !.final_amount = MulDivRound(@, adj.multiplier, 10000)]
                           ELSE calc
         IN  IF adj.offset # Null /\ adj.offset # 0
             THEN [multiplied EXCEPT !.final_amount = @ + adj.offset]
             ELSE multiplied

\* the optional sums with the manual-entry items left in
TotalsWithManualEntries(calcs) ==
    LET Pick(Test(_), Amount(_)) ==
            SumSeq([i \in DOMAIN calcs |-> IF Test(calcs[i]) THEN Amount(calcs[i]) ELSE 0])
        Mandatory(c) == ~c.is_optional
        Priced(c) == c.is_optional
        Final(c) == c.final_amount
        Low(c) == IF c.estimated_range # <<>> THEN c.estimated_range[1] ELSE c.final_amount
        High(c) == IF c.estimated_range # <<>> THEN c.estimated_range[2] ELSE c.final_amount
        mandatory_total == Pick(Mandatory, Final)
        opt_low == Pick(Priced, Low)
        opt_high == Pick(Priced, High)
    IN  [mandatory |-> mandatory_total, optional_low |-> opt_low,
         optional_high |-> opt_high, total_low |-> mandatory_total + opt_low,
         total_high |-> mandatory_total + opt_high]

\* the totals with the mandatory sum taken over the base amounts
TotalsOfBaseAmounts(calcs) ==
    LET Pick(Test(_), Amount(_)) ==
            SumSeq([i \in DOMAIN calcs |-> IF Test(calcs[i]) THEN Amount(calcs[i]) ELSE 0])
        Mandatory(c) == ~c.is_optional
        Priced(c) == c.is_optional /\ ~c.manual_entry
        Base(c) == c.base_amount
        Low(c) == IF c.estimated_range # <<>> THEN c.estimated_range[1] ELSE c.final_amount
        High(c) == IF c.estimated_range # <<>> THEN c.estimated_range[2] ELSE c.final_amount
        mandatory_total == Pick(Mandatory, Base)
        opt_low == Pick(Priced, Low)
        opt_high == Pick(Priced, High)
    IN  [mandatory |-> mandatory_total, optional_low |-> opt_low,
         optional_high |-> opt_high, total_low |-> mandatory_total + opt_low,
         total_high |-> mandatory_total + opt_high]

\* the totals block as it would be with the two ends of the ranges taken
\* the other way round
TotalsOfSwappedRanges(calcs) ==
    LET Pick(Test(_), Amount(_)) ==
            SumSeq([i \in DOMAIN calcs |-> IF Test(calcs[i]) THEN Amount(calcs[i]) ELSE 0])
        Mandatory(c) == ~c.is_optional
        Priced(c) == c.is_optional /\ ~c.manual_entry
        Final(c) == c.final_amount
        Low(c) == IF c.estimated_range # <<>> THEN c.estimated_range[2] ELSE c.final_amount
        High(c) == IF c.estimated_range # <<>> THEN c.estimated_range[1] ELSE c.final_amount
        mandatory_total == Pick(Mandatory, Final)
        opt_low == Pick(Priced, Low)
        opt_high == Pick(Priced, High)
    IN  [mandatory |-> mandatory_total, optional_low |-> opt_low,
         optional_high |-> opt_high, total_low |-> mandatory_total + opt_low,
         total_high |-> mandatory_total + opt_high]

\* the totals block of calculate_comprehensive
Totals(calcs) ==
    LET Pick(Test(_), Amount(_)) ==
            SumSeq([i \in DOMAIN calcs |-> IF Test(calcs[i]) THEN Amount(calcs[i]) ELSE 0])
        Mandatory(c) == ~c.is_optional
        Priced(c) == c.is_optional /\ ~c.manual_entry
        Final(c) == c.final_amount
        Low(c) == IF c.estimated_range # <<>> THEN c.estimated_range[1] ELSE c.final_amount
        High(c) == IF c.estimated_range # <<>> THEN c.estimated_range[2] ELSE c.final_amount
        mandatory_total == Pick(Mandatory, Final)
        opt_low == Pick(Priced, Low)
        opt_high == Pick(Priced, High)
    IN  [mandatory |-> mandatory_total, optional_low |-> opt_low,
         optional_high |-> opt_high, total_low |-> mandatory_total + opt_low,
         total_high |-> mandatory_total + opt_high]

\* the mean of the confidences of every calculation, optional ones included
OverallConfidenceOfAll(calcs) ==
    IF calcs = <<>> THEN [sum |-> 85, count |-> 1]
    ELSE [sum |-> SumSeq([i \in DOMAIN calcs |-> calcs[i].confidence]),
          count |-> Len(calcs)]

\* the mean of the mandatory confidences as [sum, count] (hundredths); 85 over
\* 1 when nothing is mandatory
OverallConfidence(calcs) ==
    LET mandatory == {i \in DOMAIN calcs : ~calcs[i].is_optional}
    IN  IF mandatory = {} THEN [sum |-> 85, count |-> 1]
        ELSE [sum |-> SumSeq([i \in DOMAIN calcs |->
                                 IF i \in mandatory THEN calcs[i].confidence ELSE 0]),
              count |-> Cardinality(mandatory)]

\* what calculate_comprehensive returns for the calculations after the overlay
Estimate(calcs) ==
    [calculations |-> calcs, totals |-> Totals(calcs),
     confidence |-> OverallConfidence(calcs)]

\* what the live sources gave during one call
Live(aphis, misp) == [aphis |-> aphis, misp |-> misp]

\* calculate_comprehensive: the possible [raised, estimate, engine after]
calculate_comprehensive(eng, reg, st, vessel, voyage, port_obj, live) ==
    UNION {
      IF pil.raised
      THEN {[raised |-> TRUE, estimate |-> NoRow, engine |-> pil.engine]}
      ELSE LET tug == _calc_tugboats(pil.engine, st, vessel, voyage)
               calcs == <<cbp, aphis, ton>>
                        \o (IF port_obj.is_california THEN <<misp>> ELSE <<>>)
                        \o <<pil.calc, _calc_dockage(vessel, voyage, port_obj),
                             tug.calc, mx>>
                        \o _optional_services(voyage, eng.show_legacy_optional)
           IN  IF eng.contract_profile = ""
               THEN {[raised |-> FALSE, estimate |-> Estimate(calcs),
                      engine |-> tug.engine]}
               ELSE {[raised |-> FALSE,
                      estimate |-> Estimate([i \in DOMAIN calcs |->
                                                ApplyContract(calcs[i], adj.mapping)]),
                      engine |-> adj.engine] :
                        adj \in _get_contract_adjustments(tug.engine, st,
                                    eng.contract_profile, port_obj, voyage.eta.date)} :
      cbp \in _calc_cbp(eng, st, voyage, port_obj),
      aphis \in _calc_aphis(st, vessel, voyage, port_obj, live.aphis),
      ton \in _calc_tonnage_tax(eng, st, vessel, voyage, port_obj),
      misp \in IF port_obj.is_california
               THEN _calc_ca_misp(st, voyage, port_obj, live.misp) ELSE {NoRow},
      pil \in _calc_pilotage(eng, reg, st, vessel, voyage, port_obj, <<>>),
      mx \in _calc_mx(st, voyage, port_obj)}

\* ------------------------------------------------------------------------
\* compute, the lightweight estimator (fee_engine.py: compute,
\* EstimateContext, TONNAGE_RATES)
\* ------------------------------------------------------------------------
EstimateContext(port_code, arrival_date, arrival_type_given, previous_port_code, net_tonnage, ytd_cbp_paid, tonnage_year_paid) ==
    [port_code |-> port_code, arrival_date |-> arrival_date,
     arrival_type |-> arrival_type_given, previous_port_code |-> previous_port_code,
     net_tonnage |-> net_tonnage, ytd_cbp_paid |-> ytd_cbp_paid,
     tonnage_year_paid |-> tonnage_year_paid]

\* step 2 of compute: the possible APHIS line items
ComputeAphis(st, ctx, port_obj) ==
    {IF db_aphis # NoRow THEN LineItem(db_aphis.code, Money4(db_aphis.rate))
     ELSE LET risk == IF port_obj.is_cascadia THEN "cascadia"
                      ELSE IF _infer_arrival_type(ctx.previous_port_code,
                                                  ctx.arrival_type) = "COASTWISE"
                      THEN "domestic"
                      ELSE "medium_risk"
          IN  LineItem("APHIS_AQI", APHIS_RISK_RATES(risk)) :
     db_aphis \in _active_fee(st, "APHIS_COMMERCIAL_VESSEL", ctx.arrival_date, port_obj)}

\* step 3 of compute without the test of the California flag
ComputeMispEverywhere(st, ctx, port_obj) ==
    {IF db_misp # NoRow THEN <<LineItem(db_misp.code, Money4(db_misp.rate))>>
     ELSE <<LineItem("CA_MISP", 100000)>> :
     db_misp \in _active_fee(st, "CA_MISP_PER_VOYAGE", ctx.arrival_date, port_obj)}

\* step 3 of compute: the possible lists holding the MISP line item, empty
\* outside California
ComputeMisp(st, ctx, port_obj) ==
    IF ~port_obj.is_california THEN {<<>>}
    ELSE {IF db_misp # NoRow THEN <<LineItem(db_misp.code, Money4(db_misp.rate))>>
          ELSE <<LineItem("CA_MISP", 100000)>> :
          db_misp \in _active_fee(st, "CA_MISP_PER_VOYAGE", ctx.arrival_date, port_obj)}

\* step 4 of compute: the possible [items, engine after]; net_tonnage is 0
\* for None and for zero alike
ComputeTonnage(eng, st, ctx, port_obj) ==
    {IF ctx.net_tonnage = 0 THEN [items |-> <<>>, engine |-> eng]
     ELSE IF db_ton # NoRow
     THEN LET per_ton == Money4(db_ton.rate)
              amt == ctx.net_tonnage * per_ton
              capped == db_ton.cap_amount # Null /\ db_ton.cap_amount # 0
                        /\ db_ton.cap_period # ""
          IN  [items |-> <<LineItem(db_ton.code,
                              IF capped
                              THEN Min2(amt, Max2(0, Money4(db_ton.cap_amount)
                                                     - Money4(ctx.tonnage_year_paid)))
                              ELSE amt)>>,
               engine |-> eng]
     ELSE LET looked == _get_vessel_type_config(eng, st, "general_cargo")
              vt_cfg == looked.cfg
              per_ton == IF vt_cfg # NoRow /\ vt_cfg.tonnage_rate # Null
                         THEN Money4(vt_cfg.tonnage_rate) ELSE 6
              base == ctx.net_tonnage * per_ton
              remaining == Max2(0, 1910000 - Money4(ctx.tonnage_year_paid))
          IN  [items |-> <<LineItem("TONNAGE_TAX", Min2(base, remaining))>>,
               engine |-> looked.engine] :
     db_ton \in _active_fee(st, "TONNAGE_TAX_PER_TON", ctx.arrival_date, port_obj)}

\* step 5 of compute: the possible marine exchange line items
ComputeMx(st, ctx, port_obj) ==
    {IF db_mx # NoRow THEN LineItem(db_mx.code, Money4(db_mx.rate))
     ELSE LineItem("MARINE_EXCHANGE", MX_FALLBACK(port_obj.code)) :
     db_mx \in _active_fee(st, "MX_VTS_PER_CALL", ctx.arrival_date, port_obj)}

\* compute: the possible [items, engine after the call]
compute(eng, st, ctx, port_obj) ==
    {[items |-> <<cbp, aphis>> \o misp \o ton.items \o <<mx>>, engine |-> ton.engine] :
        cbp \in ComputeCbp(st, ctx, port_obj),
        aphis \in ComputeAphis(st, ctx, port_obj),
        misp \in ComputeMisp(st, ctx, port_obj),
        ton \in ComputeTonnage(eng, st, ctx, port_obj),
        mx \in ComputeMx(st, ctx, port_obj)}

\* ------------------------------------------------------------------------
\* The two estimators as operations on an engine
\* ------------------------------------------------------------------------
ComputeCall(ctx) ==
    /\ call.op = "idle"
    /\ ctx.port_code = port.code
    /\ \E o \in compute(engine, store, ctx, port) :
           /\ result' = [raised |-> FALSE, items |-> o.items]
           /\ engine' = o.engine
    /\ call' = [op |-> "compute", ctx |-> ctx]
    /\ UNCHANGED <<registry, store, port>>

CalculateComprehensiveCall(vessel, voyage, live) ==
    /\ call.op = "idle"
    /\ voyage.arrival_port_code = port.code
    /\ \E o \in calculate_comprehensive(engine, registry, store, vessel, voyage, port, live) :
           /\ result' = [raised |-> o.raised, estimate |-> o.estimate]
           /\ engine' = o.engine
    /\ call' = [op |-> "calculate_comprehensive", vessel |-> vessel,
                voyage |-> voyage, live |-> live]
    /\ UNCHANGED <<registry, store, port>>

\* ------------------------------------------------------------------------
\* Estimates the model draws from
\* ------------------------------------------------------------------------
\* amounts already paid this year, in 1/10000 dollar: nothing, 299.995,
\* 550.00, 7500.00 and 8000.00
PaidToDate == {0, 2999950, 5500000, 75000000, 80000000}

\* fee tables with at most one CBP row: rate 500.005 or 600.00; cap NULL, 0,
\* 0.004, 550.00 or 800.00; four spellings of the cap period
CbpFeeTables ==
    {<<>>}
    \cup {<<Fee("CBP_COMMERCIAL_VESSEL_ARRIVAL_FEE", rate, cap, period, "", "", "", 0, Null)>> :
            rate \in {5000050, 6000000},
            cap \in {Null, 0, 40, 5500000, 8000000},
            period \in {"calendar_year", "CALENDAR_YEAR", "fiscal_year", ""}}

NoAphisLive == AphisLive(TRUE, Null, Null)

NoMispLive == MispLive(TRUE, <<>>)

\* the live sources unreachable, or both pages read
LiveOutcomes ==
    {Live(NoAphisLive, NoMispLive),
     Live(AphisLive(FALSE, 30000000, 8500000), MispLive(FALSE, <<120000>>))}

InitCbp ==
    /\ registry = StandardRegistry
    /\ store \in {[EmptyStore EXCEPT !.fees = t] : t \in CbpFeeTables}
    /\ port = Port("LALB", "", "", "socal", "CA", TRUE, FALSE)
    /\ engine \in {[NewEngine EXCEPT !.ytd_cbp_paid = paid] : paid \in PaidToDate}
    /\ call = Idle
    /\ result = NoResult

NextCbp ==
    \/ \E d \in 0..MaxDay, paid \in PaidToDate :
          ComputeCall(EstimateContext(port.code, d, "", "CNSHA", 5000, paid, 0))
    \/ \E d \in 0..MaxDay :
          CalculateComprehensiveCall(Vessel(10000, 5000, 200, 10),
                                     Voyage("CNSHA", port.code, [date |-> d, hour |-> 12]),
                                     Live(NoAphisLive, NoMispLive))

SpecCbp == InitCbp /\ [][NextCbp]_vars

\* ------------------------------------------------------------------------
\* Estimates under a contract profile
\* ------------------------------------------------------------------------
\* contract_adjustments tables: none; a profile with a discount, an offset on
\* the manual tug entry, a port-bound windowed uplift and a row of another
\* profile; a profile with a multiplier of zero, a multiplier with an offset
\* and a multiplier of 1.005; and two rows for one fee code
AdjustmentTables ==
    {<<>>,
     <<ContractAdjustment("ACME", "DOCKAGE", "", 8500, Null, 0, Null),
       ContractAdjustment("ACME", "TUGBOAT", "", 10000, 25000, 0, Null),
       ContractAdjustment("ACME", "PILOTAGE", "SFBAY", 11000, 0, 1, 2),
       ContractAdjustment("OTHER", "TOWAGE", "", 5000, Null, 0, Null)>>,
     <<ContractAdjustment("ACME", "DOCKAGE", "", 0, Null, 0, Null),
       ContractAdjustment("ACME", "LINE_HANDLING", "", 12500, 10000, 0, Null),
       ContractAdjustment("ACME", "TOWAGE", "", 10050, -5000, 1, Null)>>,
     <<ContractAdjustment("ACME", "DOCKAGE", "", 9000, Null, 0, Null),
       ContractAdjustment("ACME", "DOCKAGE", "LALB", 8000, 1000, 0, Null)>>}

ContractProfiles == {"", "ACME"}

PreviousPorts == {"CNSHA", "USLAX"}

Init ==
    /\ registry \in PilotageRegistries
    /\ store \in {[EmptyStore EXCEPT !.adjustments = t] : t \in AdjustmentTables}
    /\ port \in Ports
    /\ engine \in {[NewEngine EXCEPT !.contract_profile = profile,
                                     !.show_legacy_optional = legacy] :
                     profile \in ContractProfiles, legacy \in BOOLEAN}
    /\ call = Idle
    /\ result = NoResult

Next ==
    \/ \E d \in 0..MaxDay, prev \in PreviousPorts :
          ComputeCall(EstimateContext(port.code, d, "", prev, 5000, 0, 0))
    \/ \E vessel \in Vessels, eta \in Etas, prev \in PreviousPorts, live \in LiveOutcomes :
          CalculateComprehensiveCall(vessel, Voyage(prev, port.code, eta), live)

Spec == Init /\ [][Next]_vars

\* ------------------------------------------------------------------------
\* Estimates over a configured fee table
\* ------------------------------------------------------------------------
CBP_CODE == "CBP_COMMERCIAL_VESSEL_ARRIVAL_FEE"

APHIS_CODE == "APHIS_COMMERCIAL_VESSEL"

TONNAGE_CODE == "TONNAGE_TAX_PER_TON"

MISP_CODE == "CA_MISP_PER_VOYAGE"

MX_CODE == "MX_VTS_PER_CALL"

\* fees tables: none; one unscoped row per code (a calendar-year CBP cap, a
\* capped tonnage rate, a MISP rate of zero); rows scoped by cascadia flag,
\* port and state, one with a closed window; and versions of one code, among
\* them an expired one, two of one start date and a cap without a period
FeeTables ==
    {<<>>,
     <<Fee(CBP_CODE, 6000000, 5500000, "calendar_year", "", "", "", 0, Null),
       Fee(APHIS_CODE, 12345678, Null, "", "", "", "", 0, Null),
       Fee(TONNAGE_CODE, 500, 10000000, "tonnage_year", "", "", "", 0, Null),
       Fee(MISP_CODE, 0, Null, "", "", "", "", 0, Null),
       Fee(MX_CODE, 3000000, Null, "", "", "", "", 0, Null)>>,
     <<Fee(APHIS_CODE, 8000000, Null, "", "", "", "true", 0, Null),
       Fee(APHIS_CODE, 25000000, Null, "", "", "", "false", 1, Null),
       Fee(MX_CODE, 4000000, Null, "", "", "SFBAY", "", 0, Null),
       Fee(MISP_CODE, 9000000, Null, "", "CA", "", "", 2, 2),
       Fee(TONNAGE_CODE, 300, Null, "", "WA", "", "", 0, Null),
       Fee(CBP_CODE, 5000050, 8000000, "fiscal_year", "", "PUGET", "", 0, Null)>>,
     <<Fee(MX_CODE, 1000000, Null, "", "", "", "", 0, Null),
       Fee(MX_CODE, 2000000, Null, "", "", "", "", 1, 1),
       Fee(APHIS_CODE, 7000000, Null, "", "", "", "", 1, Null),
       Fee(APHIS_CODE, 7500000, Null, "", "", "", "", 1, Null),
       Fee(TONNAGE_CODE, 500, 10000000, "", "", "", "", 0, Null)>>}

\* what was paid before the call, in 1/10000 dollar: of the CBP fee this
\* year and of the tonnage tax this tonnage year (0, 250.00, 450.005, 900.00,
\* 2000.00)
PaidBefore ==
    {[cbp |-> 0, tonnage |-> 0], [cbp |-> 5500000, tonnage |-> 2500000],
     [cbp |-> 0, tonnage |-> 4500050], [cbp |-> 80000000, tonnage |-> 9000000],
     [cbp |-> 0, tonnage |-> 20000000]}

\* the live sources: both unreachable; both pages read with nothing found;
\* only the standard APHIS fee found; everything found; only the cascadia
\* fee found and the MISP page unreachable
LiveFeeds ==
    {Live(AphisLive(TRUE, Null, Null), MispLive(TRUE, <<>>)),
     Live(AphisLive(FALSE, Null, Null), MispLive(FALSE, <<>>)),
     Live(AphisLive(FALSE, 30000000, Null), MispLive(FALSE, <<120000>>)),
     Live(AphisLive(FALSE, 30000000, 8500000), MispLive(FALSE, <<120000, 90000>>)),
     Live(AphisLive(FALSE, Null, 8500000), MispLive(TRUE, <<>>))}

\* previous ports: high-risk foreign, domestic, other foreign, none given
PreviousPortCodes == {"CNSHA", "USLAX", "MXZLO", ""}

InitFees ==
    /\ registry = StandardRegistry
    /\ store \in {[EmptyStore EXCEPT !.fees = t] : t \in FeeTables}
    /\ port \in Ports
    /\ engine \in {[NewEngine EXCEPT !.ytd_cbp_paid = paid.cbp,
                                     !.tonnage_year_paid = paid.tonnage] :
                     paid \in PaidBefore}
    /\ call = Idle
    /\ result = NoResult

NextFees ==
    \/ \E d \in 0..MaxDay, prev \in PreviousPortCodes, net \in {0, 5000},
          given \in {"", "COASTWISE"} :
          ComputeCall(EstimateContext(port.code, d, given, prev, net,
                                      engine.ytd_cbp_paid, engine.tonnage_year_paid))
    \/ \E vessel \in Vessels, d \in 0..MaxDay, prev \in PreviousPortCodes,
          live \in LiveFeeds :
          CalculateComprehensiveCall(vessel,
                                     Voyage(prev, port.code, [date |-> d, hour |-> 12]),
                                     live)

SpecFees == InitFees /\ [][NextFees]_vars

\* ------------------------------------------------------------------------
\* The dockage engine on its own
\* ------------------------------------------------------------------------
\* port codes of each table, an unknown one and none
DockagePortCodes == {"LALB", "SFBAY", "PUGET", "USPDX", ""}

\* lengths in 1/32 meter: below, on and between the tiers and past the last
\* one; whole meters, half meters and odd 32nds
DockageLengths ==
    {0, 32 * 100, 32 * 100 + 1, 32 * 100 + 3, 32 * 100 + 16, 32 * 120,
     32 * 150 + 1, 32 * 228 + 19, 32 * 300, 32 * 366 + 5, 32 * 400, 32 * 420 + 1}

DockageDays == {0, 1, 2, 3}

DockageCalculateCall(port_code, loa_meters, days) ==
    /\ call.op = "idle"
    /\ result' = DockageCalculate(port_code, loa_meters, days)
    /\ call' = [op |-> "DockageEngine.calculate", port_code |-> port_code,
                loa_meters |-> loa_meters, days |-> days]
    /\ UNCHANGED <<registry, store, port, engine>>

InitDockage ==
    /\ registry = << >>
    /\ store = EmptyStore
    /\ port = NoPort
    /\ engine = NoEngine
    /\ call = Idle
    /\ result = NoResult

NextDockage ==
    \E c \in DockagePortCodes, l \in DockageLengths, d \in DockageDays :
        DockageCalculateCall(c, l, d)

SpecDockage == InitDockage /\ [][NextDockage]_vars

\* ------------------------------------------------------------------------
\* Several estimates from one engine instance
\* ------------------------------------------------------------------------
MaxCalls == 2

\* calculate_comprehensive on an engine that may have served calls before;
\* call.made counts the calls and call.before keeps the engine as the call
\* found it
RepeatedComprehensiveCall(vessel, voyage, live) ==
    /\ call.op \in {"idle", "calculate_comprehensive"}
    /\ (call.op = "calculate_comprehensive" => call.made < MaxCalls)
    /\ voyage.arrival_port_code = port.code
    /\ \E o \in calculate_comprehensive(engine, registry, store, vessel, voyage, port, live) :
           /\ result' = [raised |-> o.raised, estimate |-> o.estimate]
           /\ engine' = o.engine
    /\ call' = [op |-> "calculate_comprehensive", vessel |-> vessel,
                voyage |-> voyage, live |-> live,
                made |-> IF call.op = "idle" THEN 1 ELSE call.made + 1,
                before |-> engine]
    /\ UNCHANGED <<registry, store, port>>

InitSession ==
    /\ registry = StandardRegistry
    /\ store \in {[EmptyStore EXCEPT !.adjustments = t] : t \in AdjustmentTables}
    /\ port \in Ports
    /\ engine \in {[NewEngine EXCEPT !.contract_profile = profile,
                                     !.ytd_cbp_paid = paid] :
                     profile \in ContractProfiles, paid \in {0, 75000000}}
    /\ call = Idle
    /\ result = NoResult

NextSession ==
    \E d \in 0..MaxDay :
        RepeatedComprehensiveCall(Vessel(10000, 5000, 200, 10),
                                  Voyage("CNSHA", port.code, [date |-> d, hour |-> 12]),
                                  Live(NoAphisLive, NoMispLive))

SpecSession == InitSession /\ [][NextSession]_vars

\* ------------------------------------------------------------------------
\* The fee lookup on its own
\* ------------------------------------------------------------------------
FeeCodes == {CBP_CODE, APHIS_CODE, TONNAGE_CODE, MISP_CODE, MX_CODE}

ActiveFeeCall(code, on) ==
    /\ call.op = "idle"
    /\ \E f \in _active_fee(store, code, on, port) : result' = [row |-> f]
    /\ call' = [op |-> "_active_fee", code |-> code, on |-> on]
    /\ UNCHANGED <<registry, store, port, engine>>

InitActiveFee ==
    /\ registry = << >>
    /\ store \in {[EmptyStore EXCEPT !.fees = t] : t \in FeeTables}
    /\ port \in Ports
    /\ engine = NewEngine
    /\ call = Idle
    /\ result = NoResult

NextActiveFee == \E code \in FeeCodes, on \in 0..MaxDay : ActiveFeeCall(code, on)

SpecActiveFee == InitActiveFee /\ [][NextActiveFee]_vars

\* ------------------------------------------------------------------------
\* Jobs of one or two legs over a wider set of leg types
\* ------------------------------------------------------------------------
ClassifiedLabels ==
    {"Harbor Shift", "Inter-harbor Transfer", "Bar Crossing", "River Transit",
     "Canal Transit", "harbor", "Anchorage"}

ShortLegLists ==
    {LegsNamed(<<a>>) : a \in ClassifiedLabels}
    \cup {LegsNamed(<<a, b>>) : a, b \in ClassifiedLabels}

InitLegs ==
    /\ registry = StandardRegistry
    /\ store = EmptyStore
    /\ port \in Ports
    /\ engine = NewEngine
    /\ call = Idle
    /\ result = NoResult

NextLegs ==
    \E eta \in Etas, legs \in ShortLegLists :
        CalculatePilotageBreakdownCall(Vessel(50000, 20000, 300, 12), eta, legs)

SpecLegs == InitLegs /\ [][NextLegs]_vars

\* ========================================================================
\* Properties
\* ========================================================================
Reverse(s) == [i \in 1..Len(s) |-> s[Len(s) + 1 - i]]

LoaderCalled == call.op = "load_pilotage_rates"

CalledZone == Upper(call.port_zone)

\* the versions the file lists for the requested zone
ZoneVersions ==
    IF CalledZone \in DOMAIN registry THEN registry[CalledZone] ELSE <<>>

\* the effective dates, among the zone's versions, that are <= the date asked
QualifyingDates ==
    {ZoneVersions[i].effective : i \in {j \in DOMAIN ZoneVersions :
                                          ZoneVersions[j].effective <= call.job_date}}

\* the required field paths of a version, and whether a version lacks one
RequiredPaths ==
    {<<"bar", k>> : k \in _REQUIRED_BAR_KEYS}
    \cup {<<"bay", k>> : k \in _REQUIRED_BAY_KEYS}
    \cup {<<"river", k>> : k \in _REQUIRED_RIVER_KEYS}
    \cup {<<"surcharges", k>> : k \in _REQUIRED_SURCHARGE_KEYS}
    \cup {<<"extras">>}

Component(v, name) ==
    CASE name = "bar" -> v.bar
      [] name = "bay" -> v.bay
      [] name = "river" -> v.river
      [] OTHER -> v.surcharges

\* the required things a version is missing: a top-level key <<k>>, a field
\* <<component, k>> of a component it has, or <<"extras">> when its extras
\* are not a mapping
MissingPaths(v) ==
    {<<k>> : k \in _REQUIRED_VERSION_KEYS \ v.keys}
    \cup {p \in RequiredPaths : /\ Len(p) = 2
                                /\ p[1] \in v.keys
                                /\ p[2] \notin DOMAIN Component(v, p[1])}
    \cup (IF "extras" \in v.keys /\ ~v.extras_is_mapping THEN {<<"extras">>} ELSE {})

Complete(v) == MissingPaths(v) = {}

\* the incomplete versions of the requested zone, by position in the file
IncompleteInZone == {i \in DOMAIN ZoneVersions : ~Complete(ZoneVersions[i])}

C6_AsStated ==
    LoaderCalled =>
        \A i \in DOMAIN ZoneVersions : \A p \in RequiredPaths :
            p \in MissingPaths(ZoneVersions[i]) =>
                /\ ~result.ok
                /\ result.error = "MissingRateField"
                /\ result.path = <<CalledZone>> \o p

\* C6 amended: if a version of the requested zone lacks a required field, the
\* lookup fails with a missing-rate-field error and returns no entry; the
\* error names <zone>.<path> for a path missing from the first incomplete
\* version in file order, hence exactly the missing path when that version
\* misses only one.
C6_MissingFieldFailsLoudly ==
    LoaderCalled /\ IncompleteInZone # {} =>
        LET first == CHOOSE i \in IncompleteInZone : \A j \in IncompleteInZone : i <= j
        IN  /\ ~result.ok
            /\ result.error = "MissingRateField"
            /\ result.entry = NoEntry
            /\ \E p \in MissingPaths(ZoneVersions[first]) :
                   result.path = <<CalledZone>> \o p

\* the second of two versions lacks bay.minimum and nothing else is missing:
\* the error names SOCAL.bay.minimum
C6_Witness ==
    /\ LoaderCalled
    /\ Len(ZoneVersions) = 2
    /\ Complete(ZoneVersions[1])
    /\ MissingPaths(ZoneVersions[2]) = {<<"bay", "minimum">>}
    /\ result.error = "MissingRateField"
    /\ result.path = <<"SOCAL", "bay", "minimum">>

\* ------------------------------------------------------------------------
\* Pilotage breakdowns
\* ------------------------------------------------------------------------
PilotageCalled == call.op = "calculate_pilotage_breakdown"

Returned == PilotageCalled /\ ~result.raised

FallbackPath == Returned /\ "fallback" \in DOMAIN result.breakdown.audit

MillRatePath == Returned /\ "mill_rate_applied" \in DOMAIN result.breakdown.audit

GenericPath == Returned /\ ~FallbackPath /\ ~MillRatePath

OutLegs == result.breakdown.legs

PricedLegs == {i \in DOMAIN OutLegs : OutLegs[i].base_charge > 0}

SurchargedLegs == {i \in DOMAIN OutLegs : OutLegs[i].surcharges # <<>>}

FirstPriced == CHOOSE i \in PricedLegs : \A j \in PricedLegs : i <= j

AscendingSequence == \A i, j \in DOMAIN OutLegs : i < j => OutLegs[i].sequence < OutLegs[j].sequence

LegTotals == SumSeq([i \in DOMAIN OutLegs |-> OutLegs[i].total])

\* what the loader can answer for the job of the call
LoaderOutcomes ==
    load_pilotage_rates(registry, _resolve_port_zone(port), call.voyage.eta.date)

\* the registry entry the job was priced from (generic and mill-rate paths)
PricedFrom == (CHOOSE o \in LoaderOutcomes : o.ok).entry

\* C2 as stated: in the generic path of a multi-leg job no leg but the first
\* leg (in ascending sequence order) with a base charge > 0 carries a
\* weekend/holiday surcharge entry, and that leg carries one whenever a
\* multiplier above 1 applies.
C2_SurchargeOnOneLegOnly ==
    (GenericPath /\ Len(OutLegs) >= 2) =>
        /\ AscendingSequence
        /\ SurchargedLegs \subseteq (IF PricedLegs = {} THEN {} ELSE {FirstPriced})
        /\ (PricedLegs # {} /\ result.breakdown.audit.applied_multiplier > 100)
              => FirstPriced \in SurchargedLegs

\* C9 as stated: in every breakdown the job total is the sum of the leg totals.
C9_AsStated == Returned => result.breakdown.job_total = LegTotals

\* C9: the job total is the sum of the leg totals in the generic and the
\* fallback path; in the mill-rate path it is the larger of that sum and the
\* 3000.00 minimum.
C9_JobTotalIsSumOfLegsOrMinimum ==
    /\ (GenericPath \/ FallbackPath) => result.breakdown.job_total = LegTotals
    /\ MillRatePath => /\ Len(OutLegs) = 3
                       /\ result.breakdown.job_total = Max2(LegTotals, 300000)

C9_Witness ==
    /\ MillRatePath
    /\ LegTotals > 0
    /\ LegTotals < result.breakdown.job_total

\* the number of entries of a leg's extras list that carry the code
TimesListed(leg, code) ==
    Cardinality({j \in DOMAIN leg.extras : leg.extras[j].code = code})

NightDue ==
    /\ PricedFrom.surcharges.night_flat > 0
    /\ (call.voyage.eta.hour < 6 \/ call.voyage.eta.hour >= 18)

ExtrasDue == DOMAIN PricedFrom.extras

FlatsDue ==
    SumSeq([i \in 1..Len(SetToSeq(ExtrasDue)) |->
               Money5(PricedFrom.extras[SetToSeq(ExtrasDue)[i]])])
    + (IF NightDue THEN PricedFrom.surcharges.night_flat * 100 ELSE 0)

\* C10: in the generic path, when some leg has a base charge > 0, the first
\* such leg in ascending sequence order lists every named extra of the entry
\* once, at its rounded amount, and the night flat once when the ETA hour is
\* < 6 or >= 18 (and not otherwise); no other leg lists any extra or night
\* charge; the job total is the base charges and surcharges plus each of these
\* flats once.
C10_ExtrasAndNightOnceOnFirstPricedLeg ==
    GenericPath =>
        /\ AscendingSequence
        /\ \A i \in DOMAIN OutLegs :
              (PricedLegs = {} \/ i # FirstPriced) => OutLegs[i].extras = <<>>
        /\ PricedLegs # {} =>
              LET leg == OutLegs[FirstPriced]
              IN  /\ \A n \in ExtrasDue : TimesListed(leg, n) = 1
                  /\ TimesListed(leg, "night") = (IF NightDue THEN 1 ELSE 0)
                  /\ \A j \in DOMAIN leg.extras :
                        /\ leg.extras[j].code \in ExtrasDue \cup {"night"}
                        /\ leg.extras[j].amount =
                              IF leg.extras[j].code = "night"
                              THEN PricedFrom.surcharges.night_flat * 100
                              ELSE Money5(PricedFrom.extras[leg.extras[j].code])
                  /\ result.breakdown.job_total =
                        SumSeq([i \in DOMAIN OutLegs |->
                                   OutLegs[i].base_charge
                                   + SumSeq([k \in DOMAIN OutLegs[i].surcharges |->
                                                OutLegs[i].surcharges[k].amount])])
                        + FlatsDue

\* a job given against its sequence order whose first leg is unpriced and
\* whose two later legs are priced, with an extra and the night flat due
C10_Witness ==
    /\ GenericPath
    /\ Cardinality(PricedLegs) >= 2
    /\ FirstPriced > 1
    /\ call.legs[1].sequence > call.legs[2].sequence
    /\ ExtrasDue # {}
    /\ NightDue
    /\ Len(OutLegs[FirstPriced].extras) = Cardinality(ExtrasDue) + 1

\* C7: when the registry lookup fails for the zone and date of the job
\* (unknown zone, no version effective, missing field), the call returns; the
\* breakdown is one leg labelled "fallback" whose total is the job total, the
\* job total is the price of the fallback formula, and the audit block holds
\* the failure as its reason. A lookup that succeeds is never priced this way.
C7_LookupFailureFallsBack ==
    PilotageCalled =>
        /\ ~result.raised
        /\ FallbackPath <=> (\E o \in LoaderOutcomes : ~o.ok)
        /\ FallbackPath =>
              /\ Len(OutLegs) = 1
              /\ OutLegs[1].leg_type = "fallback"
              /\ OutLegs[1].total = result.breakdown.job_total
              /\ \E o \in LoaderOutcomes :
                    result.breakdown.audit.reason = [error |-> o.error, path |-> o.path]
              /\ \E f \in _calc_pilotage_fallback(NewEngine, store, call.vessel,
                                                  call.voyage, port) :
                    result.breakdown.job_total = f.calc.final_amount

C7_Witness ==
    /\ FallbackPath
    /\ result.breakdown.audit.reason.error = "MissingRateField"
    /\ result.breakdown.job_total > 0

\* ------------------------------------------------------------------------
\* The CBP arrival fee
\* ------------------------------------------------------------------------
ComputeCalled == call.op = "compute"

ComprehensiveCalled == call.op = "calculate_comprehensive" /\ ~result.raised

EstimateCalled == ComputeCalled \/ ComprehensiveCalled

CallDate == IF ComputeCalled THEN call.ctx.arrival_date ELSE call.voyage.eta.date

\* the CBP charge of the estimate, in cents
CbpCharge ==
    IF ComputeCalled THEN result.items[1].amount
    ELSE result.estimate.calculations[1].final_amount

\* the amount paid to date the estimate was asked with, rounded to cents
CbpPaid ==
    RoundHalfUp(IF ComputeCalled THEN call.ctx.ytd_cbp_paid ELSE engine.ytd_cbp_paid, 100)

\* the CBP rows of the store in force on the date of the call
CbpRows ==
    {f \in Range(store.fees) :
        /\ f.code = "CBP_COMMERCIAL_VESSEL_ARRIVAL_FEE"
        /\ f.effective_start <= CallDate
        /\ (f.effective_end = Null \/ f.effective_end >= CallDate)}

CbpRow == CHOOSE f \in CbpRows : TRUE

CbpRate ==
    IF CbpRows # {} THEN RoundHalfUp(CbpRow.rate, 100)
    ELSE IF CallDate >= FY26_START THEN 58703 ELSE 57181

\* the cap in cents; 0 for a row without one
CbpCap ==
    IF CbpRows # {} THEN (IF CbpRow.cap_amount = Null THEN 0
                          ELSE RoundHalfUp(CbpRow.cap_amount, 100))
    ELSE IF CallDate >= FY26_START THEN 799940 ELSE 779205

\* the row has a calendar-year cap the estimator applies
CbpRowCapped ==
    /\ CbpRow.cap_period \in {"calendar_year", "CALENDAR_YEAR"}
    /\ CbpRow.cap_amount # Null
    /\ IF ComputeCalled THEN CbpCap > 0 ELSE CbpRow.cap_amount # 0

\* C1 as stated: every CBP computation, from the schedule or from a DB row
\* (here: one with a positive cap), charges max(0, min(rate, cap - paid)).
C1_AsStated ==
    (EstimateCalled /\ (CbpRows # {} => CbpCap > 0)) =>
        CbpCharge = Max2(0, Min2(CbpRate, CbpCap - CbpPaid))

\* C1: with amounts rounded to cents and a rate >= 0, the schedule, and a DB
\* row whose cap period is calendar_year (in any case) and whose cap is
\* positive (for calculate_comprehensive: not zero), charge
\* max(0, min(rate, cap - paid)): zero once paid >= cap, never negative. Any
\* other DB row is charged at its rate whatever was paid.
C1_CalendarYearCapOnly ==
    EstimateCalled =>
        /\ CbpCharge >= 0
        /\ (CbpRows = {} \/ CbpRowCapped) =>
              /\ CbpCharge = Max2(0, Min2(CbpRate, CbpCap - CbpPaid))
              /\ CbpPaid >= CbpCap => CbpCharge = 0
        /\ (CbpRows # {} /\ ~CbpRowCapped) => CbpCharge = CbpRate

C1_Witness ==
    /\ ComprehensiveCalled
    /\ CbpRows # {}
    /\ CbpRowCapped
    /\ CbpRate > 0
    /\ CbpPaid > CbpCap
    /\ CbpCharge = 0


\* ------------------------------------------------------------------------
\* The contract overlay, the totals and the pilotage confidence
\* ------------------------------------------------------------------------
Calcs == result.estimate.calculations

\* the estimates of the same call by an engine with no contract profile
Unadjusted ==
    {o.estimate.calculations :
        o \in {x \in calculate_comprehensive(
                        [NewEngine EXCEPT !.ytd_cbp_paid = engine.ytd_cbp_paid,
                                          !.tonnage_year_paid = engine.tonnage_year_paid,
                                          !.show_legacy_optional = engine.show_legacy_optional],
                        registry, store, call.vessel, call.voyage, port, call.live) :
                 ~x.raised}}

\* the adjustments of the engine's profile that match a fee code in this call
Matching(code) ==
    {r \in Range(store.adjustments) :
        /\ r.profile = engine.contract_profile
        /\ r.fee_code = code
        /\ (r.port_code = "" \/ r.port_code = port.code)
        /\ r.effective_start <= call.voyage.eta.date
        /\ (r.effective_end = Null \/ r.effective_end >= call.voyage.eta.date)}

OffsetOf(r) == IF r.offset = Null THEN 0 ELSE r.offset

\* the calculation `after` is `before` adjusted once by row r; a multiplier
\* other than 1 is recorded, rounded to hundredths, under "contract"
AdjustedBy(before, after, r) ==
    /\ after.final_amount = MulDivRound(before.final_amount, r.multiplier, 10000) + OffsetOf(r)
    /\ r.multiplier # 10000 =>
          /\ "contract" \in DOMAIN after.multipliers
          /\ after.multipliers["contract"] = RoundHalfUp(r.multiplier, 100)

Untouched(before, after) ==
    /\ after.final_amount = before.final_amount
    /\ after.multipliers = before.multipliers

\* C3 as stated: under a contract profile every calculation with a matching
\* adjustment has its final amount transformed once to
\* round(round(final * multiplier) + offset), whatever the multiplier, and
\* the multiplier recorded under "contract"; every other calculation, and
\* every calculation when no profile is set, is left as it was.
C3_OverlayAppliedOnce ==
    ComprehensiveCalled =>
        \E before \in Unadjusted :
            /\ Len(before) = Len(Calcs)
            /\ \A i \in DOMAIN Calcs :
                  IF engine.contract_profile = "" \/ Matching(Calcs[i].code) = {}
                  THEN Untouched(before[i], Calcs[i])
                  ELSE \E r \in Matching(Calcs[i].code) : AdjustedBy(before[i], Calcs[i], r)

SumOver(Amount(_), Test(_)) ==
    SumSeq([i \in DOMAIN Calcs |-> IF Test(Calcs[i]) THEN Amount(Calcs[i]) ELSE 0])

LowBound(c) == IF c.estimated_range # <<>> THEN c.estimated_range[1] ELSE c.final_amount

HighBound(c) == IF c.estimated_range # <<>> THEN c.estimated_range[2] ELSE c.final_amount

FinalAmount(c) == c.final_amount

IsMandatory(c) == ~c.is_optional

IsOptionalPriced(c) == c.is_optional /\ ~c.manual_entry

IsManualOptional(c) == c.is_optional /\ c.manual_entry

\* C4: in the totals of calculate_comprehensive the optional low and high
\* sums are the range bounds (the final amount where there is no range) of
\* the optional calculations that are not manual entries, and the total low
\* and high are the mandatory total plus those sums: an optional manual
\* entry adds nothing to any of them, whatever its final amount.
C4_ManualEntriesNotInTotals ==
    ComprehensiveCalled =>
        LET totals == result.estimate.totals
        IN  /\ totals.optional_low = SumOver(LowBound, IsOptionalPriced)
            /\ totals.optional_high = SumOver(HighBound, IsOptionalPriced)
            /\ totals.total_low = SumOver(FinalAmount, IsMandatory) + totals.optional_low
            /\ totals.total_high = SumOver(FinalAmount, IsMandatory) + totals.optional_high

C4_Witness ==
    /\ ComprehensiveCalled
    /\ \E i \in DOMAIN Calcs :
          /\ IsManualOptional(Calcs[i])
          /\ Calcs[i].final_amount > 0
    /\ result.estimate.totals.optional_low = SumOver(LowBound, IsOptionalPriced)
    /\ result.estimate.totals.optional_low > 0

\* the PILOTAGE calculation of the estimate
PilotageCalc == Calcs[CHOOSE i \in DOMAIN Calcs : Calcs[i].code = "PILOTAGE"]

\* the registry cannot be used for the zone and date of the call
RegistryUnusable == \A o \in LoaderOutcomes : ~o.ok

\* C8 as stated: when the registry is unusable for the zone and date, so that
\* pilotage is priced by the fallback formula, the PILOTAGE calculation of
\* calculate_comprehensive has confidence 0.75; priced from the registry it
\* has 0.95.
C8_FallbackConfidenceLower ==
    ComprehensiveCalled =>
        PilotageCalc.confidence = IF RegistryUnusable THEN 75 ELSE 95


\* ------------------------------------------------------------------------
\* The weekend and holiday multipliers
\* ------------------------------------------------------------------------
WeekendEta == PilotageCalled /\ is_weekend_arrival(call.voyage)

HolidayEta == PilotageCalled /\ _is_us_holiday(call.voyage.eta.date, port.state)

\* the larger of the multipliers of the entry that the ETA brings into play,
\* and 1 at least
LargerMultiplier(surcharges) ==
    SetMax({100}
           \cup (IF WeekendEta THEN {surcharges.weekend_multiplier} ELSE {})
           \cup (IF HolidayEta THEN {surcharges.holiday_multiplier} ELSE {}))

\* the multiplier of the fallback formula: 2.0 on a holiday, 1.5 on a weekend
FallbackMultiplier == IF HolidayEta THEN 200 ELSE IF WeekendEta THEN 150 ELSE 100

\* the pilotage_rates rows of the arrival port
PortPilotageRows == {r \in Range(store.pilotage_rates) : r.port_code = port.code}

FallbackFloors == {500000} \cup {r.minimum_charge : r \in PortPilotageRows}

FallbackCeilings == {3000000} \cup {r.maximum_charge : r \in PortPilotageRows}

\* every leg with a base charge carries one surcharge of base * (m - 1) when
\* m is above 1, and no leg carries a surcharge otherwise
SurchargedAt(m) ==
    \A i \in DOMAIN OutLegs :
        IF m > 100 /\ OutLegs[i].base_charge > 0
        THEN /\ Len(OutLegs[i].surcharges) = 1
             /\ OutLegs[i].surcharges[1].multiplier = m
             /\ OutLegs[i].surcharges[1].amount = MulDivRound(OutLegs[i].base_charge, m - 100, 100)
        ELSE OutLegs[i].surcharges = <<>>

FallbackScaledWitness ==
    /\ FallbackPath
    /\ WeekendEta
    /\ HolidayEta
    /\ OutLegs[1].base_charge > 0
    /\ result.breakdown.job_total = MulDivRound(OutLegs[1].base_charge, 200, 100)

Items ==
    IF ComputeCalled THEN result.items
    ELSE [i \in DOMAIN Calcs |-> [code |-> Calcs[i].code, amount |-> Calcs[i].final_amount]]

ItemsCoded(code) == {i \in DOMAIN Items : Items[i].code = code}

NetTonnage == IF ComputeCalled THEN call.ctx.net_tonnage ELSE call.vessel.net_tonnage

TonnagePaid ==
    RoundHalfUp(IF ComputeCalled THEN call.ctx.tonnage_year_paid
                ELSE engine.tonnage_year_paid, 100)

\* the rows of a code active on the date of the call whose scope matches the
\* arrival port
ActiveRows(code) ==
    {f \in Range(store.fees) :
        /\ f.code = code
        /\ f.effective_start <= CallDate
        /\ (f.effective_end = Null \/ f.effective_end >= CallDate)
        /\ (f.applies_port_code = "" \/ f.applies_port_code = port.code)
        /\ (f.applies_state = "" \/ f.applies_state = port.state)
        /\ (f.applies_cascadia = "" \/ (f.applies_cascadia = "true") = port.is_cascadia)}

LatestRows(code) ==
    {f \in ActiveRows(code) : \A g \in ActiveRows(code) : g.effective_start <= f.effective_start}

\* the amounts that derive from the rate of row f: the rate in cents (per net
\* ton for the tonnage tax), or what the row's cap leaves of it
DerivedFrom(f) ==
    LET rate == RoundHalfUp(f.rate, 100)
        full == IF f.code = TONNAGE_CODE THEN NetTonnage * rate ELSE rate
        paid == IF f.code = TONNAGE_CODE THEN TonnagePaid ELSE CbpPaid
    IN  IF f.code \in {CBP_CODE, TONNAGE_CODE} /\ f.cap_amount # Null
        THEN {full, Min2(full, Max2(0, RoundHalfUp(f.cap_amount, 100) - paid))}
        ELSE {full}

\* the component is part of the estimate at all
Emitted(code) ==
    CASE code = MISP_CODE -> port.is_california
      [] code = TONNAGE_CODE -> ~ComputeCalled \/ NetTonnage # 0
      [] OTHER -> TRUE

\* the code a component is emitted under when no row is used
FallbackCode(code) ==
    CASE code = CBP_CODE -> "CBP_USER_FEE"
      [] code = APHIS_CODE -> "APHIS_AQI"
      [] code = TONNAGE_CODE -> "TONNAGE_TAX"
      [] code = MISP_CODE -> "CA_MISP"
      [] code = MX_CODE -> "MARINE_EXCHANGE"

ComponentCodes == {CBP_CODE, APHIS_CODE, TONNAGE_CODE, MISP_CODE, MX_CODE}

\* C12: for the CBP, APHIS, tonnage-tax, MISP and marine-exchange components
\* of compute and calculate_comprehensive, when the fee store holds a row of
\* the component's code active on the date whose scope matches the arrival
\* port, the component is emitted once, under the row's code, with an amount
\* derived from the rate of the latest such row, whatever the live sources
\* gave; the fallback item appears only when there is no such row.
C12_ConfiguredRowFirst ==
    EstimateCalled =>
        \A code \in ComponentCodes :
            IF Emitted(code) /\ ActiveRows(code) # {}
            THEN /\ Cardinality(ItemsCoded(code)) = 1
                 /\ ItemsCoded(FallbackCode(code)) = {}
                 /\ \E f \in LatestRows(code) :
                       \A i \in ItemsCoded(code) : Items[i].amount \in DerivedFrom(f)
            ELSE /\ ItemsCoded(code) = {}
                 /\ Cardinality(ItemsCoded(FallbackCode(code))) = IF Emitted(code) THEN 1 ELSE 0

C12_Witness ==
    /\ ComprehensiveCalled
    /\ ~call.live.aphis.raised
    /\ call.live.aphis.standard_fee # Null
    /\ Cardinality({f \in Range(store.fees) : f.code = APHIS_CODE}) = 2
    /\ Cardinality(ActiveRows(APHIS_CODE)) = 1
    /\ \E i \in ItemsCoded(APHIS_CODE) :
          /\ Items[i].amount = 250000
          /\ Items[i].amount # RoundHalfUp(call.live.aphis.standard_fee, 100)
    /\ ActiveRows(MX_CODE) = {}
    /\ ItemsCoded("MARINE_EXCHANGE") # {}


\* ------------------------------------------------------------------------
\* The statutory tonnage tax
\* ------------------------------------------------------------------------
TonnageItems == ItemsCoded("TONNAGE_TAX")

\* C13: with no tonnage row for the port and date, calculate_comprehensive
\* returns and holds one tonnage-tax item; for a net tonnage above zero its
\* amount is max(0, min(0.02 * net, 0.10 * net - paid)) in cents, paid being
\* the tonnage-year figure rounded to cents, and for a net tonnage of zero it
\* is exactly zero.
C13_StatutoryTonnageTax ==
    (call.op = "calculate_comprehensive" /\ ActiveRows(TONNAGE_CODE) = {}) =>
        /\ ~result.raised
        /\ Cardinality(TonnageItems) = 1
        /\ \A i \in TonnageItems :
              Items[i].amount = IF NetTonnage > 0
                                THEN Max2(0, Min2(2 * NetTonnage, 10 * NetTonnage - TonnagePaid))
                                ELSE 0

\* the cap leaves less than the entry fee, but something
C13_Witness ==
    /\ ComprehensiveCalled
    /\ ActiveRows(TONNAGE_CODE) = {}
    /\ NetTonnage > 0
    /\ TonnagePaid > 0
    /\ \E i \in TonnageItems :
          /\ Items[i].amount > 0
          /\ Items[i].amount < 2 * NetTonnage

C13_ZeroTonnageWitness ==
    /\ ComprehensiveCalled
    /\ ActiveRows(TONNAGE_CODE) = {}
    /\ NetTonnage = 0
    /\ \E i \in TonnageItems : Items[i].amount = 0


\* ------------------------------------------------------------------------
\* The totals of an estimate
\* ------------------------------------------------------------------------
EstimateTotals == result.estimate.totals

\* C14: the mandatory total of calculate_comprehensive is the sum of the
\* final amounts of the calculations that are not optional, and the total low
\* and high are the mandatory total plus the optional low and high.
C14_MandatoryTotalIsExactSum ==
    ComprehensiveCalled =>
        /\ EstimateTotals.mandatory = SumOver(FinalAmount, IsMandatory)
        /\ EstimateTotals.total_low = EstimateTotals.mandatory + EstimateTotals.optional_low
        /\ EstimateTotals.total_high = EstimateTotals.mandatory + EstimateTotals.optional_high

\* a mandatory calculation moved off its base amount by the contract overlay
C14_Witness ==
    /\ ComprehensiveCalled
    /\ \E i \in DOMAIN Calcs :
          /\ IsMandatory(Calcs[i])
          /\ "contract" \in DOMAIN Calcs[i].multipliers
          /\ Calcs[i].final_amount # Calcs[i].base_amount
    /\ EstimateTotals.mandatory > 0
    /\ EstimateTotals.total_low < EstimateTotals.total_high


\* the sum over the calculations of an estimate that pass a test
SumOf(calcs, Amount(_), Test(_)) ==
    SumSeq([i \in DOMAIN calcs |-> IF Test(calcs[i]) THEN Amount(calcs[i]) ELSE 0])

\* C15 as stated: after the contract overlay the totals follow the adjusted
\* final amounts: the mandatory total is the sum of the adjusted mandatory
\* final amounts, and the optional low and high move when the
\* overlay changed the final amounts of the priced optional calculations,
\* those with an estimated range included.
C15_TotalsFollowAdjustedAmounts ==
    (ComprehensiveCalled /\ engine.contract_profile # "") =>
        \E before \in Unadjusted :
            /\ Len(before) = Len(Calcs)
            /\ EstimateTotals.mandatory = SumOver(FinalAmount, IsMandatory)
            /\ SumOver(FinalAmount, IsOptionalPriced) # SumOf(before, FinalAmount, IsOptionalPriced) =>
                  /\ EstimateTotals.optional_low # SumOf(before, LowBound, IsOptionalPriced)
                  /\ EstimateTotals.optional_high # SumOf(before, HighBound, IsOptionalPriced)


\* ------------------------------------------------------------------------
\* The tugboat placeholder
\* ------------------------------------------------------------------------
NoGrossTonnage == ComprehensiveCalled /\ call.vessel.gross_tonnage <= 0

TugItems == {i \in DOMAIN Calcs : Calcs[i].code \in {"TUGBOAT", "TOWAGE"}}

TugCalc == Calcs[CHOOSE i \in TugItems : TRUE]

NotTug(c) == c.code # "TUGBOAT"

MandatoryNotTug(c) == IsMandatory(c) /\ NotTug(c)

OptionalPricedNotTug(c) == IsOptionalPriced(c) /\ NotTug(c)

\* the placeholder is flagged and kept out of every total
PlaceholderKeptOut ==
    /\ Cardinality(TugItems) = 1
    /\ TugCalc.code = "TUGBOAT"
    /\ TugCalc.manual_entry
    /\ TugCalc.is_optional
    /\ TugCalc.confidence <= 50
    /\ EstimateTotals.mandatory = SumOver(FinalAmount, MandatoryNotTug)
    /\ EstimateTotals.optional_low = SumOver(LowBound, OptionalPricedNotTug)
    /\ EstimateTotals.optional_high = SumOver(HighBound, OptionalPricedNotTug)

\* C16 as stated: for a gross tonnage of zero the tugboat calculation of the
\* estimate has final amount zero, is a manual entry, is optional, has
\* confidence <= 0.5 and adds nothing to the mandatory or optional totals.
C16_AsStated ==
    NoGrossTonnage => (PlaceholderKeptOut /\ TugCalc.final_amount = 0)

\* C16: for a gross tonnage of zero the tugboat calculation of the estimate
\* is a manual entry, optional, of confidence <= 0.5, and adds nothing to the
\* mandatory or optional totals; its final amount is zero unless a contract
\* adjustment for its code matches, and then it is the offset of such an
\* adjustment.
C16_PlaceholderOutsideTotals ==
    NoGrossTonnage =>
        /\ PlaceholderKeptOut
        /\ IF engine.contract_profile = "" \/ Matching("TUGBOAT") = {}
           THEN TugCalc.final_amount = 0
           ELSE \E r \in Matching("TUGBOAT") : TugCalc.final_amount = OffsetOf(r)

C16_Witness ==
    /\ NoGrossTonnage
    /\ TugCalc.final_amount = 0
    /\ TugCalc.manual_entry
    /\ EstimateTotals.optional_low > 0
    /\ EstimateTotals.mandatory > 0


\* ------------------------------------------------------------------------
\* The optional services
\* ------------------------------------------------------------------------
DefaultConfiguration == ComprehensiveCalled /\ ~engine.show_legacy_optional

OptionalCodes == {Calcs[i].code : i \in {j \in DOMAIN Calcs : Calcs[j].is_optional}}

AllCodes == {Calcs[i].code : i \in DOMAIN Calcs}

LegacyCodes == {"LAUNCH_SERVICE", "GARBAGE", "FRESH_WATER"}

\* without the legacy services: none of them in the estimate, line handling
\* in it once and optional
LegacyLeftOut ==
    /\ AllCodes \cap LegacyCodes = {}
    /\ Cardinality(ItemsCoded("LINE_HANDLING")) = 1
    /\ "LINE_HANDLING" \in OptionalCodes

\* C17 as stated: with show_legacy_optional disabled the optional
\* calculations of calculate_comprehensive are exactly line handling and the
\* tugboat estimate, for any vessel: no launch service, garbage disposal or
\* fresh-water item, line handling always, and the tugboat item optional.
C17_OptionalAreLineHandlingAndTug ==
    DefaultConfiguration =>
        /\ LegacyLeftOut
        /\ Cardinality(TugItems) = 1
        /\ TugCalc.is_optional
        /\ OptionalCodes = {"LINE_HANDLING", TugCalc.code}


\* ------------------------------------------------------------------------
\* The APHIS fallback buckets
\* ------------------------------------------------------------------------
\* no APHIS row applies and the live lookup gave no fee the port can use
AphisFallback ==
    /\ ComprehensiveCalled
    /\ ActiveRows(APHIS_CODE) = {}
    /\ \/ call.live.aphis.raised
       \/ /\ call.live.aphis.standard_fee = Null
          /\ (call.live.aphis.cascadia_fee = Null \/ ~port.is_cascadia)

PreviousCountry == CountryPrefix(call.voyage.previous_port_code)

\* the bucket in priority order, as its rate in cents
BucketRate ==
    IF PreviousCountry = "US" THEN 50000
    ELSE IF port.is_cascadia THEN 83751
    ELSE IF PreviousCountry \in {"CN", "VN", "TH", "ID", "MY", "PH", "IN", "KR"} THEN 290373
    ELSE 200000

\* C18: with no APHIS row for the port and date and no usable live fee,
\* calculate_comprehensive charges the flat rate of the first bucket that
\* applies: domestic (500.00) when the previous port is a US port, else the
\* reduced-fee region (837.51) when the arrival port is flagged Cascadia, else
\* high risk (2903.73) when the previous port's country is in the high-risk
\* set, else medium risk (2000.00).
C18_AphisBucketPriority ==
    AphisFallback =>
        /\ Cardinality(ItemsCoded("APHIS_AQI")) = 1
        /\ \A i \in ItemsCoded("APHIS_AQI") : Items[i].amount = BucketRate

\* a high-risk origin into a Cascadia port is charged the reduced fee
C18_Witness ==
    /\ AphisFallback
    /\ port.is_cascadia
    /\ PreviousCountry = "CN"
    /\ \E i \in ItemsCoded("APHIS_AQI") : Items[i].amount = 83751

C18_MediumRiskWitness ==
    /\ AphisFallback
    /\ ~port.is_cascadia
    /\ PreviousCountry = ""
    /\ \E i \in ItemsCoded("APHIS_AQI") : Items[i].amount = 200000


\* ------------------------------------------------------------------------
\* The state ballast-water fee
\* ------------------------------------------------------------------------
MispItems == ItemsCoded("CA_MISP") \cup ItemsCoded(MISP_CODE)

\* C19: the items of compute and the calculations of calculate_comprehensive
\* hold exactly one state ballast-water (CA MISP) item when the arrival port
\* is flagged California and none when it is not.
C19_MispOnlyInCalifornia ==
    EstimateCalled =>
        Cardinality(MispItems) = IF port.is_california THEN 1 ELSE 0

C19_Witness ==
    /\ ComputeCalled
    /\ port.is_california
    /\ Cardinality(MispItems) = 1
    /\ Len(Items) >= 4

C19_ElsewhereWitness ==
    /\ ComprehensiveCalled
    /\ ~port.is_california
    /\ MispItems = {}
    /\ ActiveRows(MX_CODE) # {}


\* ------------------------------------------------------------------------
\* Failures of the advisory live-data calls
\* ------------------------------------------------------------------------
ComprehensiveRequested == call.op = "calculate_comprehensive"

\* the APHIS schedule call raised or gave no fee the arrival port can use
AphisLiveFailed ==
    \/ call.live.aphis.raised
    \/ /\ call.live.aphis.standard_fee = Null
       /\ (call.live.aphis.cascadia_fee = Null \/ ~port.is_cascadia)

\* the MISP snapshot call raised or came back with no amount seen on the pages
MispLiveFailed ==
    \/ call.live.misp.raised
    \/ call.live.misp.possible_amounts_seen = <<>>

AmountsOf(code) == {Items[i].amount : i \in ItemsCoded(code)}

C20_EstimateReturned == ComprehensiveRequested => ~result.raised

C20_AphisStaticFallback ==
    (ComprehensiveCalled /\ ActiveRows(APHIS_CODE) = {} /\ AphisLiveFailed) =>
        AmountsOf("APHIS_AQI") = {BucketRate}

C20_MxStaticFallback ==
    (ComprehensiveCalled /\ ActiveRows(MX_CODE) = {}) =>
        AmountsOf("MARINE_EXCHANGE") = {MX_FALLBACK(port.code)}

C20_MispStaticFallback ==
    (ComprehensiveCalled /\ port.is_california /\ ActiveRows(MISP_CODE) = {}
        /\ MispLiveFailed) =>
        AmountsOf("CA_MISP") = {100000}

\* C20: whatever an advisory live-data call does (raise, or hand back empty
\* or partial data), calculate_comprehensive returns its estimate, and a
\* component whose live data failed is charged its static fallback: the risk
\* bucket rate for APHIS, 1000.00 for CA MISP, the fixed port fee for the
\* marine exchange.
C20_LiveFailureKeepsStaticFallback ==
    /\ C20_EstimateReturned
    /\ C20_AphisStaticFallback
    /\ C20_MxStaticFallback
    /\ C20_MispStaticFallback

\* the snapshot call raised and the engine's own handler took the static fee
C20_MispRaisedWitness ==
    /\ ComprehensiveCalled
    /\ port.is_california
    /\ call.live.misp.raised
    /\ AmountsOf("CA_MISP") = {100000}

\* the snapshot came back without amounts and the fee was read off its
\* descriptive text
C20_MispEmptyWitness ==
    /\ ComprehensiveCalled
    /\ port.is_california
    /\ ~call.live.misp.raised
    /\ call.live.misp.possible_amounts_seen = <<>>
    /\ AmountsOf("CA_MISP") = {MispCurrentFeeCleaned}


\* ------------------------------------------------------------------------
\* The overall confidence
\* ------------------------------------------------------------------------
MandatoryCalcs == {i \in DOMAIN Calcs : ~Calcs[i].is_optional}

OptionalCalcs == {i \in DOMAIN Calcs : Calcs[i].is_optional}

ConfidenceOf(c) == c.confidence

OverallConf == result.estimate.confidence

\* C21: the overall confidence of calculate_comprehensive is the sum of the
\* confidences of the calculations with is_optional false divided by their
\* number, whatever the optional calculations carry, and lies between 0 and 1
\* (confidences in hundredths, the mean kept as sum over count).
C21_ConfidenceIsMandatoryMean ==
    ComprehensiveCalled =>
        /\ MandatoryCalcs # {}
        /\ OverallConf.count = Cardinality(MandatoryCalcs)
        /\ OverallConf.sum = SumOver(ConfidenceOf, IsMandatory)
        /\ 0 <= OverallConf.sum
        /\ OverallConf.sum <= 100 * OverallConf.count

\* an estimate whose optional calculations carry confidences away from the
\* mean of the mandatory ones
C21_Witness ==
    /\ ComprehensiveCalled
    /\ OptionalCalcs # {}
    /\ \A i \in OptionalCalcs :
          Calcs[i].confidence * OverallConf.count < OverallConf.sum
    /\ \E i \in MandatoryCalcs : Calcs[i].confidence = 75


\* ------------------------------------------------------------------------
\* The loader's failures
\* ------------------------------------------------------------------------
\* the requested zone has no versions in the registry
ZoneUnknown == call.port_zone # "" /\ ZoneVersions = <<>>

\* the zone has versions and the date asked precedes all their dates
BeforeEveryVersion ==
    /\ call.port_zone # ""
    /\ ZoneVersions # <<>>
    /\ QualifyingDates = {}

FailedWith(kind, text) ==
    /\ ~result.ok
    /\ result.entry = NoEntry
    /\ result.error = kind
    /\ result.path = <<text, CalledZone>>

C22_UnknownZone ==
    ZoneUnknown => FailedWith("KeyError", "no pilotage rates configured")

C22_NeverLaterVersion ==
    result.ok => result.entry.effective <= call.job_date

\* C22 as stated: load_pilotage_rates fails with the unknown-zone error when
\* the zone has no registry entry and with the no-effective-version error
\* when the zone has versions and the date precedes them all, and never
\* returns a version dated after the date asked.
C22_AsStated ==
    LoaderCalled =>
        /\ C22_UnknownZone
        /\ BeforeEveryVersion =>
              FailedWith("ValueError", "no pilotage rates effective")
        /\ C22_NeverLaterVersion

\* C22 amended: as stated, except that a date before every version of the
\* zone fails with the no-effective-version error only when the zone's
\* versions are all complete; when one of them lacks a required field the
\* call still fails and returns no entry, with the missing-rate-field error.
C22_LoaderFailsWithoutEntry ==
    LoaderCalled =>
        /\ C22_UnknownZone
        /\ BeforeEveryVersion =>
              IF IncompleteInZone = {}
              THEN FailedWith("ValueError", "no pilotage rates effective")
              ELSE /\ ~result.ok
                   /\ result.entry = NoEntry
                   /\ result.error = "MissingRateField"
        /\ C22_NeverLaterVersion

\* two complete versions, both dated after the date asked
C22_Witness ==
    /\ LoaderCalled
    /\ BeforeEveryVersion
    /\ Len(ZoneVersions) = 2
    /\ IncompleteInZone = {}
    /\ result.error = "ValueError"

C22_UnknownZoneWitness ==
    /\ LoaderCalled
    /\ ZoneUnknown
    /\ DOMAIN registry # {}
    /\ result.error = "KeyError"


\* ------------------------------------------------------------------------
\* Rounding of monetary values
\* ------------------------------------------------------------------------
DockageCalled == call.op = "DockageEngine.calculate"

\* the daily rate of the call before rounding, in 1/32 dollar
UnroundedDailyRate == _interpolate_rate(call.loa_meters, DockageTable(call.port_code))

\* C23: the monetary values of the dockage component, which compute-style
\* outputs carry unchanged (daily rate as base amount, total as final
\* amount), are the unrounded values rounded half-up to two fraction digits.
C23_DockageRoundedHalfUp ==
    DockageCalled =>
        /\ result.base_daily_rate = RoundHalfUp(UnroundedDailyRate * 100, 32)
        /\ result.total_amount =
               RoundHalfUp(UnroundedDailyRate * result.billable_periods * 100, 32)

\* a daily rate that ends in half a cent and is rounded down to an even cent
C23_TieWitness ==
    /\ DockageCalled
    /\ (UnroundedDailyRate * 100) % 32 = 16
    /\ result.base_daily_rate * 32 < UnroundedDailyRate * 100


\* ------------------------------------------------------------------------
\* One engine instance against a fresh one
\* ------------------------------------------------------------------------
SessionCalled == call.op = "calculate_comprehensive" /\ "made" \in DOMAIN call

\* a newly constructed engine given the accumulators and the profile the
\* call found
FreshEngine ==
    [NewEngine EXCEPT !.ytd_cbp_paid = call.before.ytd_cbp_paid,
                      !.tonnage_year_paid = call.before.tonnage_year_paid,
                      !.contract_profile = call.before.contract_profile,
                      !.show_legacy_optional = call.before.show_legacy_optional]

\* what the fresh engine can return for the arguments of the call
FreshOutputs ==
    {[raised |-> o.raised, estimate |-> o.estimate] :
        o \in calculate_comprehensive(FreshEngine, registry, store, call.vessel,
                                      call.voyage, port, call.live)}

C24_StaleCacheWitness ==
    /\ SessionCalled
    /\ call.made = 2
    /\ <<engine.contract_profile, port.code>> \in DOMAIN call.before._contract_adj_cache
    /\ result \notin FreshOutputs


\* ------------------------------------------------------------------------
\* Order of the adjustment rows
\* ------------------------------------------------------------------------
\* the engine as the call found it: constructed for the request, caches empty
EngineBefore ==
    [engine EXCEPT !._vessel_type_cache = <<>>, !._pilotage_rate_cache = <<>>,
                   !._contract_adj_cache = <<>>]

\* the adjustment rows the query of the call matches
MatchingRows ==
    ContractRows(store, engine.contract_profile, port, call.voyage.eta.date)

\* the final amounts, by position, of every estimate the call can return as
\* the store hands back the matching rows in one order or another
PossibleFinalAmounts ==
    {[i \in DOMAIN o.estimate.calculations |-> o.estimate.calculations[i].final_amount] :
        o \in {x \in calculate_comprehensive(EngineBefore, registry, store, call.vessel,
                                             call.voyage, port, call.live) : ~x.raised}}

\* C25: the adjusted amount of every calculation is the same whatever the
\* order in which the store returns the matching adjustment rows, also when
\* a port-specific and a port-agnostic row match one fee code.
C25_OverlayOrderIndependent ==
    (ComprehensiveCalled /\ engine.contract_profile # "") =>
        PossibleFinalAmounts = {[i \in DOMAIN Calcs |-> Calcs[i].final_amount]}

\* a port-specific and a port-agnostic row of one fee code match, and the
\* estimate depends on which the store returned last
C25_TwoRowsWitness ==
    /\ ComprehensiveCalled
    /\ \E r1, r2 \in MatchingRows :
          /\ r1.fee_code = r2.fee_code
          /\ r1.port_code = port.code
          /\ r2.port_code = ""
    /\ Cardinality(PossibleFinalAmounts) = 2


\* ------------------------------------------------------------------------
\* The fee lookup
\* ------------------------------------------------------------------------
ActiveFeeCalled == call.op = "_active_fee"

\* row f is in force on the date asked and every scope field it sets agrees
\* with the port
Qualifies(f) ==
    /\ f.code = call.code
    /\ f.effective_start <= call.on
    /\ (f.effective_end = Null \/ f.effective_end >= call.on)
    /\ (f.applies_port_code # "" => f.applies_port_code = port.code)
    /\ (f.applies_state # "" => f.applies_state = port.state)
    /\ (f.applies_cascadia = "true" => port.is_cascadia)
    /\ (f.applies_cascadia = "false" => ~port.is_cascadia)

QualifyingRows == {f \in Range(store.fees) : Qualifies(f)}

\* C26: _active_fee returns a row only if the row has the code asked, is in
\* force on the date asked (effective_start <= date, effective_end absent or
\* >= date) and agrees with the port in every scope field it sets; no such
\* row starts later than the one returned; and it returns none exactly when
\* no row qualifies.
C26_ActiveFeeIsLatestQualifying ==
    ActiveFeeCalled =>
        /\ result.row # NoRow =>
              /\ result.row \in QualifyingRows
              /\ \A g \in QualifyingRows : g.effective_start <= result.row.effective_start
        /\ (result.row = NoRow) <=> (QualifyingRows = {})

\* two versions in force on the date asked, the later-started one returned
C26_Witness ==
    /\ ActiveFeeCalled
    /\ \E g \in QualifyingRows : g.effective_start < result.row.effective_start
    /\ result.row.effective_end # Null

\* a row of the right code and date, out of scope for the port, not returned
C26_ScopeWitness ==
    /\ ActiveFeeCalled
    /\ result.row = NoRow
    /\ \E f \in Range(store.fees) :
          /\ f.code = call.code
          /\ f.effective_start <= call.on
          /\ f.effective_end = Null
          /\ f.applies_state # ""


\* ------------------------------------------------------------------------
\* Classification of the legs
\* ------------------------------------------------------------------------
\* the component each leg type is to be priced as ("" for none): in the
\* sound-style zone the harbor keywords are bar and the inter-harbor ones
\* bay; elsewhere a harbor is part of the bay; a bar crossing is bar and a
\* river or canal transit river everywhere; an anchorage is nothing
ExpectedComponent(zone, leg_type) ==
    CASE leg_type \in {"Harbor Shift", "harbor"} -> IF zone = "PUGET" THEN "bar" ELSE "bay"
      [] leg_type = "Inter-harbor Transfer" -> "bay"
      [] leg_type = "Bar Crossing" -> "bar"
      [] leg_type \in {"River Transit", "Canal Transit"} -> "river"
      [] OTHER -> ""

ComponentAmounts == _pilotage_component_amounts(call.vessel, PricedFrom)

ClassifiedLegs == {i \in DOMAIN OutLegs : OutLegs[i].classification # ""}

\* C27: in a breakdown priced leg by leg from the registry, every leg
\* carries the component of the zone's keyword table for its normalised
\* type, or the component of the first substring it holds when the table has
\* no entry for it; the base charge of a classified leg is the amount of its
\* component; a leg that matches nothing is unclassified, has base charge and
\* total zero, no surcharge and no extra, and the job total is the sum over
\* the classified legs.
C27_LegsClassifiedByZoneTable ==
    (GenericPath /\ call.legs # <<>>) =>
        /\ Len(OutLegs) = Len(call.legs)
        /\ \A i \in DOMAIN OutLegs :
              /\ OutLegs[i].classification =
                     ExpectedComponent(Upper(result.breakdown.port_zone), OutLegs[i].leg_type)
              /\ IF OutLegs[i].classification = ""
                 THEN /\ OutLegs[i].base_charge = 0
                      /\ OutLegs[i].total = 0
                      /\ OutLegs[i].surcharges = <<>>
                      /\ OutLegs[i].extras = <<>>
                 ELSE OutLegs[i].base_charge = ComponentAmounts[OutLegs[i].classification]
        /\ result.breakdown.job_total =
               SumSeq([i \in DOMAIN OutLegs |->
                          IF i \in ClassifiedLegs THEN OutLegs[i].total ELSE 0])

\* the sound-style zone: a harbor shift priced as bar, an inter-harbor
\* transfer as bay
C27_Witness ==
    /\ GenericPath
    /\ Upper(result.breakdown.port_zone) = "PUGET"
    /\ Len(OutLegs) = 2
    /\ OutLegs[1].leg_type = "Harbor Shift" /\ OutLegs[1].classification = "bar"
    /\ OutLegs[2].leg_type = "Inter-harbor Transfer" /\ OutLegs[2].classification = "bay"

\* an anchorage before a river transit: the first leg adds nothing and the
\* second is the job
C27_UnclassifiedWitness ==
    /\ GenericPath
    /\ Len(OutLegs) = 2
    /\ OutLegs[1].leg_type = "Anchorage" /\ OutLegs[1].total = 0
    /\ OutLegs[2].classification = "river"
    /\ result.breakdown.job_total = OutLegs[2].total
    /\ result.breakdown.job_total > 0


\* ------------------------------------------------------------------------
\* Floor and ceiling of the fallback formula
\* ------------------------------------------------------------------------
\* the pilotage_rates rows in force for the port on the ETA date: the latest
\* effective ones
RowsInForce ==
    LET dated == {r \in PortPilotageRows : r.effective_date <= call.voyage.eta.date}
    IN  {r \in dated : \A q \in dated : q.effective_date <= r.effective_date}

FallbackTotal == result.breakdown.job_total

\* the base amount of the fallback formula times the multiplier of the ETA
FallbackScaled == MulDivRound(OutLegs[1].base_charge, FallbackMultiplier, 100)

\* C28 as stated: the amount of the fallback formula lies between the
\* minimum and the maximum charge in force, those of the pilotage_rates row
\* when there is one (each where the row sets it), 5000.00 and 30000.00 when
\* there is none.
C28_AsStated ==
    FallbackPath =>
        IF RowsInForce = {}
        THEN 500000 <= FallbackTotal /\ FallbackTotal <= 3000000
        ELSE \E r \in RowsInForce :
                /\ r.minimum_charge # Null => r.minimum_charge <= FallbackTotal
                /\ r.maximum_charge # Null => FallbackTotal <= r.maximum_charge

\* C28 amended: with no pilotage_rates row in force the amount lies between
\* 5000.00 and 30000.00; with a row it never exceeds the row's maximum, when
\* set, and never falls below the row's minimum, when set, unless that
\* minimum is above the maximum, where the amount is the maximum. The bounds
\* act on the amount after the weekend/holiday multiplier.
C28_FallbackClamped ==
    FallbackPath =>
        IF RowsInForce = {}
        THEN /\ 500000 <= FallbackTotal
             /\ FallbackTotal <= 3000000
             /\ FallbackTotal = Min2(Max2(FallbackScaled, 500000), 3000000)
        ELSE \E r \in RowsInForce :
                /\ r.maximum_charge # Null => FallbackTotal <= r.maximum_charge
                /\ (r.minimum_charge # Null
                      /\ (r.maximum_charge = Null \/ r.minimum_charge <= r.maximum_charge))
                   => r.minimum_charge <= FallbackTotal
                /\ (r.minimum_charge # Null /\ r.maximum_charge # Null
                      /\ r.minimum_charge > r.maximum_charge)
                   => FallbackTotal = r.maximum_charge

\* a holiday price above the row's maximum, brought down to it
C28_Witness ==
    /\ FallbackPath
    /\ HolidayEta
    /\ \E r \in RowsInForce :
          /\ r.maximum_charge # Null
          /\ FallbackScaled > OutLegs[1].base_charge
          /\ FallbackScaled > r.maximum_charge
          /\ FallbackTotal = r.maximum_charge

\* no row: a small vessel raised to the 5000.00 floor
C28_DefaultFloorWitness ==
    /\ FallbackPath
    /\ RowsInForce = {}
    /\ FallbackScaled < 500000
    /\ FallbackTotal = 500000


\* ------------------------------------------------------------------------
\* Low and high totals
\* ------------------------------------------------------------------------
\* an optional calculation whose final amount the contract overlay changed
AdjustedOptional ==
    \E i \in OptionalCalcs : Calcs[i].final_amount # Calcs[i].base_amount

\* C29: in every estimate of calculate_comprehensive optional_low is at most
\* optional_high and total_low at most total_high, whatever calculations are
\* emitted and whatever the contract adjustments in force.
C29_LowNotAboveHigh ==
    ComprehensiveCalled =>
        /\ EstimateTotals.optional_low <= EstimateTotals.optional_high
        /\ EstimateTotals.total_low <= EstimateTotals.total_high

\* an estimate with the legacy services shown and a contract adjustment on
\* an optional service
C29_Witness ==
    /\ ComprehensiveCalled
    /\ engine.show_legacy_optional
    /\ AdjustedOptional
    /\ EstimateTotals.optional_low < EstimateTotals.optional_high
    /\ EstimateTotals.total_low < EstimateTotals.total_high


\* ------------------------------------------------------------------------
\* The two entry points side by side
\* ------------------------------------------------------------------------
\* what calculate_comprehensive can return for the port, date, previous port,
\* net tonnage, paid-to-date figures and store of a compute call, the live
\* sources being unreachable
ComprehensiveCounterparts ==
    {o \in calculate_comprehensive(
              [EngineBefore EXCEPT !.ytd_cbp_paid = call.ctx.ytd_cbp_paid,
                                   !.tonnage_year_paid = call.ctx.tonnage_year_paid],
              registry, store,
              Vessel(10000, call.ctx.net_tonnage, 200, 10),
              Voyage(call.ctx.previous_port_code, port.code,
                     [date |-> call.ctx.arrival_date, hour |-> 12]),
              port, Live(NoAphisLive, NoMispLive)) : ~o.raised}

\* the amounts calculate_comprehensive can give a component
CounterpartAmounts(codes) ==
    UNION {{o.estimate.calculations[j].final_amount :
               j \in {k \in DOMAIN o.estimate.calculations :
                         o.estimate.calculations[k].code \in codes}} :
           o \in ComprehensiveCounterparts}

\* the item of compute for the component has an amount calculate_comprehensive
\* can give it too
AgreesOn(codes) ==
    \A i \in DOMAIN Items :
        Items[i].code \in codes => Items[i].amount \in CounterpartAmounts(codes)

\* compute was called with the arrival type left to be inferred
ComparableCompute == ComputeCalled /\ call.ctx.arrival_type = ""

C30_CbpAgrees == ComparableCompute => AgreesOn({CBP_CODE, "CBP_USER_FEE"})

C30_AphisAgrees == ComparableCompute => AgreesOn({APHIS_CODE, "APHIS_AQI"})

C30_MispAgrees == ComparableCompute => AgreesOn({MISP_CODE, "CA_MISP"})

C30_TonnageAgrees == ComparableCompute => AgreesOn({TONNAGE_CODE, "TONNAGE_TAX"})

C30_MxAgrees == ComparableCompute => AgreesOn({MX_CODE, "MARINE_EXCHANGE"})

\* C30: for the same port, date, previous port, net tonnage, paid-to-date
\* figures and store, with the live sources unreachable, compute gives the
\* CBP arrival fee, the APHIS fee, the state ballast-water fee, the tonnage
\* tax and the marine-exchange fee the amount calculate_comprehensive gives
\* them.
C30_EntryPointsAgree ==
    /\ C30_CbpAgrees
    /\ C30_AphisAgrees
    /\ C30_MispAgrees
    /\ C30_TonnageAgrees
    /\ C30_MxAgrees

====
